---- MODULE Spec2Model ----
(***************************************************************************)
(* Model of the Rust binding of the test-optimization native library       *)
(* (sdks/rust/test-optimization-sdk): the marshaling of host strings,      *)
(* maps and arrays across the foreign boundary, the entity handles         *)
(* (session, module, suite, test, span) and the session lifecycle.         *)
(*                                                                         *)
(* Strings are sequences of byte values; 0 is the null byte.  A foreign    *)
(* call is a record whose field fn is the name of the extern function.     *)
(* The foreign library is opaque: every value it returns is drawn from a   *)
(* small set.                                                              *)
(***************************************************************************)
EXTENDS Integers, Sequences, FiniteSets, TLC

VARIABLES
    lifecycle,   \* process-wide state of the foreign library
    session,     \* the TestSession handle held by the host, or NoHandle
    module,      \* the latest TestModule handle, or NoHandle
    suite,       \* the latest TestSuite handle, or NoHandle
    test,        \* the latest Test handle, or NoHandle
    span,        \* the latest Span handle, or NoHandle
    nextId,      \* the next identifier the foreign side hands out
    last,        \* the last API call: name, arguments, outcome, result
    origin,      \* for each held child handle, the parent handle it was created from;
                 \* for the held span, what Span::create was given
    calls,       \* the foreign calls the last API call issued, in order
    leaked,      \* host allocations made by API calls and never released
    foreign,     \* the array the foreign side returns to a settings or mock-tracer read
    mockTracer,  \* the spans the mock tracer of the foreign side holds
    threads,     \* the calls that host threads have in progress on copies of a handle
    replay       \* the record of a run and of its repetition without the mock tracer

vars == <<lifecycle, session, module, suite, test, span, nextId, origin, last, calls, leaked,
          foreign, mockTracer, threads, replay>>

----------------------------------------------------------------------------
(* Bounds *)

\* identifiers the foreign side hands out are 1..MaxId
MaxId == 4
\* longest foreign array, host map or file list
MaxLen == 2
\* most allocations the model lets leak before it stops issuing calls
MaxLeaked == 2
\* most API calls of a run that is recorded and repeated
MaxScript == 2
\* host threads that call operations on copies of one handle
MaxThreads == 2

----------------------------------------------------------------------------
(* Strings *)

NUL == 0
sA == <<97>>
sB == <<98>>
sEmpty == <<>>
\* a host string with an embedded null byte
sBad == <<97, 0, 98>>
\* a host string of one character that takes two bytes in UTF-8
sUtf8 == <<195, 169>>

HostStrs == {sEmpty, sA, sB, sBad}

HasNul(s) == \E i \in 1..Len(s) : s[i] = NUL

\* a mutant of CStringNew: cut at the first null byte instead of failing
CStringNewTruncating(s) ==
    LET cut == IF HasNul(s)
               THEN (CHOOSE i \in 1..Len(s) : s[i] = NUL /\ \A j \in 1..(i-1) : s[j] # NUL) - 1
               ELSE Len(s)
    IN [ok |-> TRUE, buf |-> SubSeq(s, 1, cut) \o <<NUL>>]

\* CString::new(s): Err(NulError) on an interior null byte, else the bytes
\* of s followed by the terminator
CStringNew(s) ==
    IF HasNul(s) THEN [ok |-> FALSE, buf |-> <<>>]
    ELSE [ok |-> TRUE, buf |-> s \o <<NUL>>]

\* the null pointer, where a foreign string or buffer may be absent
NullPtr == <<-1>>

\* a mutant of Bool_to_bool: only the byte 1 is true
Bool_to_bool_OnlyOne(value) == value = 1

\* a decoder that looks at the lowest bit of the byte
Bool_to_bool_LowBit(value) == value % 2 = 1

\* utils.rs Bool_to_bool
Bool_to_bool(value) == value # 0

\* one-byte results the foreign side may return
ByteReplies == {0, 1, 255}

\* every value of the one-byte Bool of the foreign side
Bytes == 0..255

----------------------------------------------------------------------------
(* Time *)

NanosPerSec == 1000000000

\* clock readings, in nanoseconds since the Unix epoch
ClockReadings == {7, NanosPerSec + 5}

\* utils.rs get_now, the clock reading t
GetNow(t) == [sec |-> t \div NanosPerSec, nsec |-> t % NanosPerSec]

----------------------------------------------------------------------------
(* Handles *)

NoHandle == [kind |-> "none"]

Lifecycles == {"uninitialized", "initialized", "shut_down"}

ExitCodes == {-1, 0, 1, 2}

\* ids a foreign create call may return: a fresh one, or 0
CreateReplies == {0, nextId}

NoOrigin == [module |-> NoHandle, suite |-> NoHandle, test |-> NoHandle, span |-> NoHandle]

\* a foreign array is a data pointer and a length; null says that the data
\* pointer is null, and data holds what a pointer that is not null points to
NoArray == [kind |-> "none", null |-> TRUE, data |-> <<>>, len |-> 0]

IsNull(array) == array.null

NoCall == [name |-> "none", outcome |-> "returned"]

\* no host thread has a call in progress
NoThreads == <<>>

\* no run is being recorded
NoReplay == [run |-> 0, script |-> <<>>, issued |-> <<>>, reissued |-> <<>>,
             seen |-> <<NoCall, <<>>>>]

----------------------------------------------------------------------------
(* The mock tracer of the foreign library: what it holds after the calls    *)
(* the binding issues.  It records the spans of Span::create and the tests; *)
(* tags are not recorded.                                                   *)

\* the library runs its live tracer: nothing is recorded
NoMock == [on |-> FALSE, open |-> <<>>, finished |-> <<>>]

\* a mock tracer that holds no span
EmptyMock == [on |-> TRUE, open |-> <<>>, finished |-> <<>>]

\* a tag array of a recorded span
NoTags == [null |-> TRUE, data |-> <<>>, len |-> 0]

\* topt_initialize: a successful initialize starts a fresh cycle with the
\* tracer that use_mock_tracer selects
MockOnInitialize(m, use_mock_tracer, accepted) ==
    IF ~accepted THEN m
    ELSE IF use_mock_tracer # 0 THEN EmptyMock ELSE NoMock

\* topt_span_create and topt_test_create: the entity the library created
\* under the identifier id is recorded as an open span; 0 says that
\* nothing was created
MockOnCreate(m, id, parent_id, name, start_time) ==
    IF m.on /\ id # 0
    THEN [m EXCEPT !.open = Append(@, [span_id |-> id, trace_id |-> id,
                                        parent_span_id |-> parent_id,
                                        start_time |-> start_time,
                                        finish_time |-> start_time,
                                        operation_name |-> name,
                                        string_tags |-> NoTags,
                                        number_tags |-> NoTags])]
    ELSE m

\* topt_span_close and topt_test_close: the library answers as it likes;
\* when it reports success for an open span, the span is finished at the
\* time it was given.  A span that is finished stays finished.
MockOnClose(m, id, finish_time, reply) ==
    IF m.on /\ reply # 0 /\ \E i \in DOMAIN m.open : m.open[i].span_id = id
    THEN LET i == CHOOSE j \in DOMAIN m.open : m.open[j].span_id = id
         IN [m EXCEPT !.open = SubSeq(@, 1, i - 1) \o SubSeq(@, i + 1, Len(@)),
                      !.finished = Append(@, [m.open[i] EXCEPT
                                                !.finish_time = finish_time])]
    ELSE m

\* topt_debug_mock_tracer_reset clears the recorded spans
MockOnReset(m, reply) ==
    IF m.on /\ reply # 0 THEN EmptyMock ELSE m

\* the one foreign call, if any, of an operation on a held handle: of the
\* calls on sessions, modules, suites and spans only topt_span_close
\* changes what the mock tracer records
MockOnHandleCall(m, cs, reply) ==
    IF cs # <<>> /\ cs[1].fn = "topt_span_close"
    THEN MockOnClose(m, cs[1].id, cs[1].extra[1], reply)
    ELSE m

\* the topt_MockSpanArray the library hands out for the recorded spans
MockSpanArray(spans) ==
    [kind |-> "spans", null |-> (spans = <<>>), data |-> spans, len |-> Len(spans)]

\* a host that holds no handle and has no call behind it
HostIdle ==
    /\ session = NoHandle
    /\ module = NoHandle
    /\ suite = NoHandle
    /\ test = NoHandle
    /\ span = NoHandle
    /\ nextId = 1
    /\ origin = NoOrigin
    /\ last = NoCall
    /\ calls = <<>>
    /\ leaked = 0
    /\ mockTracer = NoMock
    /\ threads = NoThreads
    /\ replay = NoReplay

\* the host before any call
InitHost ==
    /\ lifecycle = "uninitialized"
    /\ HostIdle

Init ==
    /\ InitHost
    /\ foreign = NoArray

----------------------------------------------------------------------------
(* TestSession *)

\* the values init_with_values is called with: all strings valid, with and
\* without a working directory, or one of them with an embedded null byte
InitStrs ==
    { <<sA, sA, sA, NullPtr>>, <<sA, sB, sEmpty, sA>>,
      <<sBad, sA, sA, NullPtr>>, <<sA, sBad, sA, sA>>,
      <<sA, sA, sBad, NullPtr>>, <<sA, sA, sA, sBad>> }

\* the mock tracer is asked for in the calls without a working directory
InitArgs ==
    { [language |-> t[1], runtime_name |-> t[2], runtime_version |-> t[3],
       working_directory |-> t[4], use_mock_tracer |-> (t[4] = NullPtr)] :
        t \in InitStrs }

\* the four CString::new(..).unwrap() of init_with_values all succeed
InitArgsEncode(a) ==
    /\ CStringNew(a.language).ok
    /\ CStringNew(a.runtime_name).ok
    /\ CStringNew(a.runtime_version).ok
    /\ (a.working_directory # NullPtr => CStringNew(a.working_directory).ok)

\* a mutant of InitOptions: with the mock tracer no working directory is
\* passed
InitOptionsMockWithoutDirectory(a) ==
    [fn |-> "topt_initialize",
     language |-> CStringNew(a.language).buf,
     runtime_name |-> CStringNew(a.runtime_name).buf,
     runtime_version |-> CStringNew(a.runtime_version).buf,
     working_directory |-> IF a.working_directory = NullPtr \/ a.use_mock_tracer THEN NullPtr
                           ELSE CStringNew(a.working_directory).buf,
     use_mock_tracer |-> IF a.use_mock_tracer THEN 1 ELSE 0]

\* the topt_InitOptions that init_with_values builds
InitOptions(a) ==
    [fn |-> "topt_initialize",
     language |-> CStringNew(a.language).buf,
     runtime_name |-> CStringNew(a.runtime_name).buf,
     runtime_version |-> CStringNew(a.runtime_version).buf,
     working_directory |-> IF a.working_directory = NullPtr THEN NullPtr
                           ELSE CStringNew(a.working_directory).buf,
     use_mock_tracer |-> IF a.use_mock_tracer THEN 1 ELSE 0]

SessionCreateCall == [fn |-> "topt_session_create", framework |-> NullPtr,
                      framework_version |-> NullPtr]

\* the host strings of the arguments a, in the order they are encoded
InitArgStrs(a) ==
    <<a.language, a.runtime_name, a.runtime_version>>
    \o (IF a.working_directory = NullPtr THEN <<>> ELSE <<a.working_directory>>)

\* #[cfg(target_os = "windows")]: the Go runtime of the static library is
\* started first
Bootstrap(windows) ==
    IF windows THEN << [fn |-> "_rt0_amd64_windows_lib"] >> ELSE <<>>

\* a mutant of LifecycleOnShutdown: a library that was never initialized is
\* shut down too
LifecycleOnShutdownAlways(state) == "shut_down"

\* the foreign library on topt_shutdown: an initialized library is shut
\* down, and shutdown is idempotent
LifecycleOnShutdown(state) ==
    IF state = "initialized" THEN "shut_down" ELSE state

\* the foreign library on topt_initialize: a successful initialize starts a
\* cycle, also after a shutdown
LifecycleOnInitialize(state, accepted) ==
    IF accepted THEN "initialized" ELSE state

\* a mutant of InitCalls: the session is created before the library is
\* initialized
InitCallsCreateFirst(a, windows, accepted) ==
    Bootstrap(windows)
    \o (IF accepted THEN <<SessionCreateCall>> ELSE <<>>)
    \o <<InitOptions(a)>>

\* a mutant of InitCalls: the session is created whatever topt_initialize
\* returned
InitCallsAlwaysCreate(a, windows, accepted) ==
    Bootstrap(windows) \o <<InitOptions(a), SessionCreateCall>>

\* the foreign calls of TestSession::init_with_values once its strings are
\* encoded; accepted is the result of topt_initialize
InitCalls(a, windows, accepted) ==
    Bootstrap(windows) \o <<InitOptions(a)>>
    \o (IF accepted THEN <<SessionCreateCall>> ELSE <<>>)

\* TestSession::init_with_values, built for Windows or for another target
InitWithValues(a, windows, reply, sid) ==
    /\ nextId <= MaxId
    /\ IF ~InitArgsEncode(a)
       THEN /\ last' = [name |-> "init_with_values", args |-> a, strs |-> InitArgStrs(a),
                        before |-> lifecycle, outcome |-> "panicked"]
            /\ calls' = Bootstrap(windows)
            /\ UNCHANGED <<lifecycle, session, nextId, mockTracer>>
       ELSE /\ calls' = InitCalls(a, windows, Bool_to_bool(reply))
            /\ lifecycle' = LifecycleOnInitialize(lifecycle, Bool_to_bool(reply))
            /\ mockTracer' = MockOnInitialize(mockTracer, InitOptions(a).use_mock_tracer,
                                              reply # 0)
            /\ IF Bool_to_bool(reply)
               THEN /\ last' = [name |-> "init_with_values", args |-> a,
                                strs |-> InitArgStrs(a), before |-> lifecycle,
                                outcome |-> "returned", reply |-> reply, created |-> sid]
                    /\ session' = [kind |-> "session", session_id |-> sid]
                    /\ nextId' = nextId + 1
               ELSE /\ last' = [name |-> "init_with_values", args |-> a,
                                strs |-> InitArgStrs(a), before |-> lifecycle,
                                outcome |-> "returned", reply |-> reply, created |-> 0]
                    /\ session' = [kind |-> "session", session_id |-> 0]
                    /\ UNCHANGED nextId
    /\ UNCHANGED <<module, suite, test, span, origin, leaked, foreign, threads, replay>>

\* TestOptimization::init_with_values: the facade initializes and creates
\* no session
Initialize(a, windows, reply) ==
    /\ IF ~InitArgsEncode(a)
       THEN /\ last' = [name |-> "initialize", args |-> a, strs |-> InitArgStrs(a),
                        before |-> lifecycle, outcome |-> "panicked"]
            /\ calls' = Bootstrap(windows)
            /\ UNCHANGED <<lifecycle, mockTracer>>
       ELSE /\ last' = [name |-> "initialize", args |-> a, strs |-> InitArgStrs(a),
                        before |-> lifecycle, outcome |-> "returned", reply |-> reply,
                        ret |-> Bool_to_bool(reply)]
            /\ calls' = Bootstrap(windows) \o <<InitOptions(a)>>
            /\ lifecycle' = LifecycleOnInitialize(lifecycle, Bool_to_bool(reply))
            /\ mockTracer' = MockOnInitialize(mockTracer, InitOptions(a).use_mock_tracer,
                                              reply # 0)
    /\ UNCHANGED <<session, module, suite, test, span, nextId, origin, leaked, foreign,
                   threads, replay>>

\* TestOptimization::shutdown
Shutdown(reply) ==
    /\ last' = [name |-> "shutdown", before |-> lifecycle, outcome |-> "returned",
                reply |-> reply, ret |-> Bool_to_bool(reply)]
    /\ calls' = << [fn |-> "topt_shutdown"] >>
    /\ lifecycle' = LifecycleOnShutdown(lifecycle)
    /\ UNCHANGED <<session, module, suite, test, span, nextId, origin, leaked, foreign,
                   mockTracer, threads, replay>>

\* a mutant of SessionCloseCalls: the caller's exit code is passed on even
\* while the thread is unwinding
SessionCloseCallsNoForce(h, exit_code, panicking) ==
    << [fn |-> "topt_session_close", session_id |-> h.session_id, exit_code |-> exit_code],
       [fn |-> "topt_shutdown"] >>

\* a mutant of SessionCloseCalls: the unwinding branch does not shut down
SessionCloseCallsNoShutdown(h, exit_code, panicking) ==
    IF panicking
    THEN << [fn |-> "topt_session_close", session_id |-> h.session_id, exit_code |-> 1] >>
    ELSE << [fn |-> "topt_session_close", session_id |-> h.session_id, exit_code |-> exit_code],
            [fn |-> "topt_shutdown"] >>

\* the foreign calls of TestSession::close, in the order it issues them
SessionCloseCalls(h, exit_code, panicking) ==
    << [fn |-> "topt_session_close", session_id |-> h.session_id,
        exit_code |-> IF panicking THEN 1 ELSE exit_code],
       [fn |-> "topt_shutdown"] >>

\* the foreign library after the calls cs, of which topt_shutdown is the
\* one that changes its state
LifecycleAfter(cs) ==
    IF \E i \in 1..Len(cs) : cs[i].fn = "topt_shutdown"
    THEN LifecycleOnShutdown(lifecycle)
    ELSE lifecycle

\* TestSession::close; reply is the result of topt_session_close, which is
\* dropped: close returns ()
SessionClose(exit_code, panicking, reply) ==
    /\ session # NoHandle
    /\ last' = [name |-> "session_close", exit_code |-> exit_code,
                panicking |-> panicking, before |-> lifecycle, outcome |-> "returned",
                reply |-> reply, ret |-> <<>>]
    /\ calls' = SessionCloseCalls(session, exit_code, panicking)
    /\ lifecycle' = LifecycleAfter(calls')
    /\ UNCHANGED <<session, module, suite, test, span, nextId, origin, leaked, foreign,
                   mockTracer, threads, replay>>

----------------------------------------------------------------------------
(* Creation of modules, suites and tests *)

\* names the create calls are given
CreateStrs == {sA, sBad}

\* the three strings create_module is given: all valid, or one of them with
\* an embedded null byte
ModuleStrs == { <<sA, sB, sEmpty>>, <<sBad, sA, sA>>, <<sA, sBad, sA>>, <<sA, sA, sBad>> }

\* a mutant of NewModule: the session id is taken from the foreign result
NewModuleFromResult(s, module_id) ==
    [kind |-> "module", session_id |-> module_id, module_id |-> module_id]

\* the TestModule that create_module returns
NewModule(s, module_id) ==
    [kind |-> "module", session_id |-> s.session_id, module_id |-> module_id]

\* TestSession::create_module
CreateModule(name, framework_name, framework_version, reply) ==
    /\ session # NoHandle
    /\ nextId <= MaxId
    /\ IF /\ CStringNew(name).ok
          /\ CStringNew(framework_name).ok
          /\ CStringNew(framework_version).ok
       THEN /\ calls' = << [fn |-> "topt_module_create", id |-> session.session_id,
                            strs |-> << CStringNew(name).buf,
                                        CStringNew(framework_name).buf,
                                        CStringNew(framework_version).buf >>] >>
            /\ module' = NewModule(session, reply)
            /\ origin' = [origin EXCEPT !.module = session]
            /\ nextId' = nextId + 1
            /\ last' = [name |-> "create_module",
                        strs |-> <<name, framework_name, framework_version>>,
                        outcome |-> "returned", reply |-> reply]
       ELSE /\ calls' = <<>>
            /\ last' = [name |-> "create_module",
                        strs |-> <<name, framework_name, framework_version>>,
                        outcome |-> "panicked"]
            /\ UNCHANGED <<module, origin, nextId>>
    /\ UNCHANGED <<lifecycle, session, suite, test, span, leaked, foreign, mockTracer, threads,
                   replay>>

\* the TestSuite that create_test_suite returns
NewSuite(m, suite_id) ==
    [kind |-> "suite", session_id |-> m.session_id, module_id |-> m.module_id,
     suite_id |-> suite_id]

\* TestModule::create_test_suite
CreateTestSuite(name, reply) ==
    /\ module # NoHandle
    /\ nextId <= MaxId
    /\ IF CStringNew(name).ok
       THEN /\ calls' = << [fn |-> "topt_suite_create", id |-> module.module_id,
                            strs |-> << CStringNew(name).buf >>] >>
            /\ suite' = NewSuite(module, reply)
            /\ origin' = [origin EXCEPT !.suite = module]
            /\ nextId' = nextId + 1
            /\ last' = [name |-> "create_test_suite", strs |-> <<name>>,
                        outcome |-> "returned", reply |-> reply]
       ELSE /\ calls' = <<>>
            /\ last' = [name |-> "create_test_suite", strs |-> <<name>>,
                        outcome |-> "panicked"]
            /\ UNCHANGED <<suite, origin, nextId>>
    /\ UNCHANGED <<lifecycle, session, module, test, span, leaked, foreign, mockTracer,
                   threads, replay>>

\* the Test that create_test returns
NewTest(s, test_id) ==
    [kind |-> "test", session_id |-> s.session_id, module_id |-> s.module_id,
     suite_id |-> s.suite_id, test_id |-> test_id]

\* TestSuite::create_test
CreateTest(name, t, reply) ==
    /\ suite # NoHandle
    /\ nextId <= MaxId
    /\ IF CStringNew(name).ok
       THEN /\ calls' = << [fn |-> "topt_test_create", id |-> suite.suite_id,
                            strs |-> << CStringNew(name).buf >>,
                            start_time |-> GetNow(t)] >>
            /\ mockTracer' = MockOnCreate(mockTracer, reply, suite.suite_id,
                                          CStringNew(name).buf, GetNow(t))
            /\ test' = NewTest(suite, reply)
            /\ origin' = [origin EXCEPT !.test = suite]
            /\ nextId' = nextId + 1
            /\ last' = [name |-> "create_test", strs |-> <<name>>,
                        outcome |-> "returned", reply |-> reply]
       ELSE /\ calls' = <<>>
            /\ last' = [name |-> "create_test", strs |-> <<name>>,
                        outcome |-> "panicked"]
            /\ UNCHANGED <<test, origin, nextId, mockTracer>>
    /\ UNCHANGED <<lifecycle, session, module, suite, span, leaked, foreign, threads,
                   replay>>

----------------------------------------------------------------------------
(* The session, its modules, suites and tests *)

Next ==
    \/ \E a \in InitArgs, windows \in BOOLEAN, reply \in ByteReplies, sid \in CreateReplies :
          InitWithValues(a, windows, reply, sid)
    \/ \E exit_code \in ExitCodes, panicking \in BOOLEAN, reply \in ByteReplies :
          SessionClose(exit_code, panicking, reply)
    \/ \E t \in ModuleStrs, reply \in CreateReplies :
          CreateModule(t[1], t[2], t[3], reply)
    \/ \E n \in CreateStrs, reply \in CreateReplies : CreateTestSuite(n, reply)
    \/ \E n \in CreateStrs, t \in ClockReadings, reply \in CreateReplies :
          CreateTest(n, t, reply)

Spec == Init /\ [][Next]_vars

----------------------------------------------------------------------------
(* Inbound strings *)

\* null-terminated buffers on the foreign side; 255 is no byte of any
\* UTF-8 encoding.  The model's foreign strings hold ASCII bytes and 255.
fEmpty == <<NUL>>
fA == <<97, NUL>>
fB == <<98, NUL>>
fInvalid == <<255, NUL>>

\* U+FFFD REPLACEMENT CHARACTER in UTF-8
Replacement == <<239, 191, 189>>

\* CStr::from_ptr(p).to_bytes(): the bytes before the first null byte
RECURSIVE CStrBytes(_)
CStrBytes(buf) ==
    IF buf = <<>> \/ Head(buf) = NUL THEN <<>>
    ELSE <<Head(buf)>> \o CStrBytes(Tail(buf))

\* a decoder that takes every byte above 127 for an invalid one
RECURSIVE ToStringLossyAscii(_)
ToStringLossyAscii(bytes) ==
    IF bytes = <<>> THEN <<>>
    ELSE (IF Head(bytes) >= 128 THEN Replacement ELSE <<Head(bytes)>>)
         \o ToStringLossyAscii(Tail(bytes))

\* to_string_lossy().into_owned(): bytes that are not UTF-8 become U+FFFD
RECURSIVE ToStringLossy(_)
ToStringLossy(bytes) ==
    IF bytes = <<>> THEN <<>>
    ELSE (IF Head(bytes) >= 248 THEN Replacement ELSE <<Head(bytes)>>)
         \o ToStringLossy(Tail(bytes))

\* CStr::from_ptr(p).to_string_lossy().into_owned() for a pointer p that
\* is not null
CStrToString(p) == ToStringLossy(CStrBytes(p))

\* What a read through a null pointer does is undefined: the process is
\* killed, or the read yields whatever the build finds there.
UBOutcomes ==
    { [crash |-> TRUE, str |-> sEmpty],
      [crash |-> FALSE, str |-> sEmpty],
      [crash |-> FALSE, str |-> <<63>>] }

\* CStr::from_ptr(p) with no null check, when the process survives it
UncheckedStr(p, ub) == IF p = NullPtr THEN ub.str ELSE CStrToString(p)

\* the decoders of mock_tracer.rs: a null string field is the empty string
CheckedStr(p) == IF p = NullPtr THEN sEmpty ELSE CStrToString(p)

----------------------------------------------------------------------------
(* Host maps *)

EmptyMap == <<>>

\* the map m with key k bound to v
Put(m, k, v) == [x \in (DOMAIN m) \cup {k} |-> IF x = k THEN v ELSE m[x]]

\* m[k], or d when m has no key k
GetOr(m, k, d) == IF k \in DOMAIN m THEN m[k] ELSE d

----------------------------------------------------------------------------
(* Foreign arrays *)

\* all sequences over E of length at most n
SeqsUpTo(E, n) == UNION { [1..k -> E] : k \in 0..n }

\* isize::MAX of a 32-bit target
IsizeMax == 2147483647

\* a length no allocation can have
HugeLen == IsizeMax

\* a lower bound of size_of::<MockSpan>(): its three u64 fields
MockSpanMinSize == 24

\* the arrays of kind k over the elements E: a pointer to len elements, or
\* a null pointer with any of the lengths in NullLens
ForeignArraysOf(k, E, NullLens) ==
    { [kind |-> k, null |-> FALSE, data |-> d, len |-> Len(d)] : d \in SeqsUpTo(E, MaxLen) }
    \cup { [kind |-> k, null |-> TRUE, data |-> <<>>, len |-> n] : n \in NullLens }

\* topt_KnownTest values: names that repeat, names that differ, a name
\* that is not UTF-8, an empty name, and a null pointer in each field
KnownElems ==
    { [module_name |-> t[1], suite_name |-> t[2], test_name |-> t[3]] :
        t \in { <<fA, fA, fA>>, <<fA, fA, fB>>, <<fB, fA, fA>>, <<fA, fB, fInvalid>>,
                <<fEmpty, fA, fA>>, <<NullPtr, fA, fA>>, <<fA, NullPtr, fA>>,
                <<fA, fA, NullPtr>> } }

\* topt_SkippableTest values
SkippableElems ==
    { [suite_name |-> t[1], test_name |-> t[2], parameters |-> t[3],
       custom_configurations_json |-> t[4]] :
        t \in { <<fA, fA, fEmpty, fA>>, <<fA, fA, fA, fEmpty>>, <<fA, fB, fEmpty, fA>>,
                <<fB, fA, fA, fA>>, <<NullPtr, fA, fA, fA>>, <<fA, NullPtr, fA, fA>>,
                <<fA, fA, NullPtr, fA>>, <<fA, fA, fA, NullPtr>> } }

\* topt_TestManagementTest values: the three names and the three flag bytes
TestManagementElems ==
    { [module_name |-> t[1], suite_name |-> t[2], test_name |-> t[3],
       quarantined |-> t[4], disabled |-> t[5], attempt_to_fix |-> t[6]] :
        t \in { <<fA, fA, fA, 0, 0, 0>>, <<fA, fA, fA, 1, 0, 255>>,
                <<fA, fA, fB, 0, 2, 0>>, <<fB, fA, fA, 1, 1, 1>>,
                <<fEmpty, fA, fA, 0, 0, 1>>, <<NullPtr, fA, fA, 1, 0, 0>>,
                <<fA, NullPtr, fA, 0, 1, 0>>, <<fA, fA, NullPtr, 0, 0, 1>> } }

\* what an element read through a null data pointer yields when the
\* process survives it: wild pointers and zero bytes
GarbageElem(kind) ==
    CASE kind = "known" ->
            [module_name |-> NullPtr, suite_name |-> NullPtr, test_name |-> NullPtr]
      [] kind = "skippable" ->
            [suite_name |-> NullPtr, test_name |-> NullPtr, parameters |-> NullPtr,
             custom_configurations_json |-> NullPtr]
      [] kind = "test_management" ->
            [module_name |-> NullPtr, suite_name |-> NullPtr, test_name |-> NullPtr,
             quarantined |-> 0, disabled |-> 0, attempt_to_fix |-> 0]

\* the string pointers of an element that the loop body hands to CStr::from_ptr
StrPtrs(kind, e) ==
    CASE kind = "known" -> {e.module_name, e.suite_name, e.test_name}
      [] kind = "skippable" ->
            {e.suite_name, e.test_name, e.parameters, e.custom_configurations_json}
      [] kind = "test_management" -> {e.module_name, e.suite_name, e.test_name}

----------------------------------------------------------------------------
(* get_known_tests, get_skippable_tests, get_test_management_tests *)

\* get_known_tests with a set of names in place of the Vec: a name already
\* in the list is not appended again
KnownTestsStepDedup(acc, e, ub) ==
    LET module_name_string == UncheckedStr(e.module_name, ub)
        suite_name_string == UncheckedStr(e.suite_name, ub)
        test_name == UncheckedStr(e.test_name, ub)
        suites_map == GetOr(acc, module_name_string, EmptyMap)
        tests_vec == GetOr(suites_map, suite_name_string, <<>>)
    IN Put(acc, module_name_string,
           Put(suites_map, suite_name_string,
               IF \E j \in DOMAIN tests_vec : tests_vec[j] = test_name
               THEN tests_vec ELSE Append(tests_vec, test_name)))

\* the body of the loop of get_known_tests
KnownTestsStep(acc, e, ub) ==
    LET module_name_string == UncheckedStr(e.module_name, ub)
        suite_name_string == UncheckedStr(e.suite_name, ub)
        test_name == UncheckedStr(e.test_name, ub)
        suites_map == GetOr(acc, module_name_string, EmptyMap)
        tests_vec == GetOr(suites_map, suite_name_string, <<>>)
    IN Put(acc, module_name_string,
           Put(suites_map, suite_name_string, Append(tests_vec, test_name)))

\* the SkippableTest built from the element e
SkippableRecord(e, ub) ==
    [suite_name |-> UncheckedStr(e.suite_name, ub),
     test_name |-> UncheckedStr(e.test_name, ub),
     parameters |-> UncheckedStr(e.parameters, ub),
     custom_configurations_json |-> UncheckedStr(e.custom_configurations_json, ub)]

\* a mutant of SkippableTestsStep: a repeated key replaces the list
SkippableTestsStepReplacing(acc, e, ub) ==
    LET r == SkippableRecord(e, ub)
        suites_map_entry == GetOr(acc, r.suite_name, EmptyMap)
    IN Put(acc, r.suite_name, Put(suites_map_entry, r.test_name, <<r>>))

\* the body of the loop of get_skippable_tests
SkippableTestsStep(acc, e, ub) ==
    LET r == SkippableRecord(e, ub)
        suites_map_entry == GetOr(acc, r.suite_name, EmptyMap)
        tests_vec == GetOr(suites_map_entry, r.test_name, <<>>)
    IN Put(acc, r.suite_name, Put(suites_map_entry, r.test_name, Append(tests_vec, r)))

\* the TestManagementTest built from the element e
TestManagementRecord(e, ub) ==
    [module_name |-> UncheckedStr(e.module_name, ub),
     suite_name |-> UncheckedStr(e.suite_name, ub),
     test_name |-> UncheckedStr(e.test_name, ub),
     quarantined |-> Bool_to_bool(e.quarantined),
     disabled |-> Bool_to_bool(e.disabled),
     attempt_to_fix |-> Bool_to_bool(e.attempt_to_fix)]

\* a mutant of TestManagementStep: insert, so that the last record wins
TestManagementStepOverwriting(acc, e, ub) ==
    LET r == TestManagementRecord(e, ub)
        modules_map_entry == GetOr(acc, r.module_name, EmptyMap)
        suites_map_entry == GetOr(modules_map_entry, r.suite_name, EmptyMap)
    IN Put(acc, r.module_name,
           Put(modules_map_entry, r.suite_name, Put(suites_map_entry, r.test_name, r)))

\* the body of the loop of get_test_management_tests: entry(..).or_insert(..)
TestManagementStep(acc, e, ub) ==
    LET r == TestManagementRecord(e, ub)
        modules_map_entry == GetOr(acc, r.module_name, EmptyMap)
        suites_map_entry == GetOr(modules_map_entry, r.suite_name, EmptyMap)
    IN Put(acc, r.module_name,
           Put(modules_map_entry, r.suite_name,
               IF r.test_name \in DOMAIN suites_map_entry THEN suites_map_entry
               ELSE Put(suites_map_entry, r.test_name, r)))

CatalogStep(kind, acc, e, ub) ==
    CASE kind = "known" -> KnownTestsStep(acc, e, ub)
      [] kind = "skippable" -> SkippableTestsStep(acc, e, ub)
      [] kind = "test_management" -> TestManagementStep(acc, e, ub)

\* for i in 0..array.len: the element is read through array.data with no
\* null check, and its strings through their pointers with no null check
RECURSIVE CatalogLoop(_, _, _, _, _)
CatalogLoop(kind, array, i, acc, ub) ==
    IF i >= array.len
    THEN [outcome |-> "returned", result |-> acc, reads |-> i]
    ELSE LET e == IF IsNull(array) THEN GarbageElem(kind) ELSE array.data[i + 1]
         IN IF ub.crash /\ (IsNull(array) \/ NullPtr \in StrPtrs(kind, e))
            THEN [outcome |-> "crashed", result |-> acc, reads |-> i + 1]
            ELSE CatalogLoop(kind, array, i + 1, CatalogStep(kind, acc, e, ub), ub)

\* what a read does, in order: the foreign getter, the reads through the
\* array's data pointer, and the foreign free once the decoding has returned
ReadEvents(getter, free, r) ==
    << [ev |-> "call", fn |-> getter] >>
    \o [j \in 1..r.reads |-> [ev |-> "read", index |-> j - 1]]
    \o (IF r.outcome = "returned" THEN << [ev |-> "call", fn |-> free] >> ELSE <<>>)

IsCall(e) == e.ev = "call"

\* a process killed by a signal runs no further call
Alive == last.outcome # "crashed"

\* the effect of a read that decoded the foreign array as r
ReadReturns(name, getter, free, r) ==
    /\ Alive
    /\ last' = [name |-> name, outcome |-> r.outcome, result |-> r.result,
                reads |-> r.reads, events |-> ReadEvents(getter, free, r)]
    /\ calls' = SelectSeq(ReadEvents(getter, free, r), IsCall)
    /\ UNCHANGED <<lifecycle, session, module, suite, test, span, nextId, origin, leaked,
                   foreign, mockTracer, threads, replay>>

\* TestSession::get_known_tests
GetKnownTests(ub) ==
    /\ foreign.kind = "known"
    /\ ReadReturns("get_known_tests", "topt_get_known_tests", "topt_free_known_tests",
                   CatalogLoop("known", foreign, 0, EmptyMap, ub))

\* TestSession::get_skippable_tests
GetSkippableTests(ub) ==
    /\ foreign.kind = "skippable"
    /\ ReadReturns("get_skippable_tests", "topt_get_skippable_tests",
                   "topt_free_skippable_tests",
                   CatalogLoop("skippable", foreign, 0, EmptyMap, ub))

\* TestSession::get_test_management_tests
GetTestManagementTests(ub) ==
    /\ foreign.kind = "test_management"
    /\ ReadReturns("get_test_management_tests", "topt_get_test_management_tests",
                   "topt_free_test_management_tests",
                   CatalogLoop("test_management", foreign, 0, EmptyMap, ub))

----------------------------------------------------------------------------
(* MockTracer *)

\* convert_unix_time without the seconds
ConvertUnixTimeWithoutSeconds(ut) == [secs |-> 0, nanos |-> ut.nsec % NanosPerSec]

\* convert_unix_time: UNIX_EPOCH + Duration::new(sec, nsec as u32), which
\* carries whole seconds of the nanoseconds over.  Every value of the
\* model is below 2^32, where `as u32` changes nothing.
ConvertUnixTime(ut) ==
    [secs |-> ut.sec + (ut.nsec \div NanosPerSec), nanos |-> ut.nsec % NanosPerSec]

\* convert_key_value_array with entry(key).or_insert(value) in place of
\* insert: the first pair of a key is kept
RECURSIVE ConvertKeyValueLoopKeeping(_, _, _)
ConvertKeyValueLoopKeeping(array, i, map) ==
    IF i >= array.len THEN map
    ELSE LET pair == array.data[i + 1]
             key == CheckedStr(pair.key)
         IN ConvertKeyValueLoopKeeping(array, i + 1,
                IF key \in DOMAIN map THEN map ELSE Put(map, key, CheckedStr(pair.value)))

\* for i in 0..array.len of convert_key_value_array: map.insert(key, value)
RECURSIVE ConvertKeyValueLoop(_, _, _)
ConvertKeyValueLoop(array, i, map) ==
    IF i >= array.len THEN map
    ELSE LET pair == array.data[i + 1]
         IN ConvertKeyValueLoop(array, i + 1,
                                Put(map, CheckedStr(pair.key), CheckedStr(pair.value)))

\* MockTracer::convert_key_value_array
ConvertKeyValueArray(array) ==
    IF ~IsNull(array) THEN ConvertKeyValueLoop(array, 0, EmptyMap) ELSE EmptyMap

\* for i in 0..array.len of convert_key_number_array: map.insert(key, pair.value)
RECURSIVE ConvertKeyNumberLoop(_, _, _)
ConvertKeyNumberLoop(array, i, map) ==
    IF i >= array.len THEN map
    ELSE LET pair == array.data[i + 1]
         IN ConvertKeyNumberLoop(array, i + 1, Put(map, CheckedStr(pair.key), pair.value))

\* MockTracer::convert_key_number_array
ConvertKeyNumberArray(array) ==
    IF ~IsNull(array) THEN ConvertKeyNumberLoop(array, 0, EmptyMap) ELSE EmptyMap

\* MockTracer::convert_mock_span
ConvertMockSpan(mock) ==
    [span_id |-> mock.span_id,
     trace_id |-> mock.trace_id,
     parent_span_id |-> mock.parent_span_id,
     start_time |-> ConvertUnixTime(mock.start_time),
     finish_time |-> ConvertUnixTime(mock.finish_time),
     operation_name |-> CheckedStr(mock.operation_name),
     string_tags |-> ConvertKeyValueArray(mock.string_tags),
     number_tags |-> ConvertKeyNumberArray(mock.number_tags)]

\* Vec::with_capacity(len) panics with "capacity overflow" when len
\* elements take more than isize::MAX bytes
CapacityOverflow(len) == len > IsizeMax \div MockSpanMinSize

\* MockTracer::convert_mock_span_array
ConvertMockSpanArray(array) ==
    IF CapacityOverflow(array.len)
    THEN [outcome |-> "panicked", result |-> <<>>, reads |-> 0]
    ELSE IF ~IsNull(array)
    THEN [outcome |-> "returned",
          result |-> [i \in 1..array.len |-> ConvertMockSpan(array.data[i])],
          reads |-> array.len]
    ELSE [outcome |-> "returned", result |-> <<>>, reads |-> 0]

\* topt_KeyValueArray values of a mock span
kvNull == [null |-> TRUE, data |-> <<>>, len |-> 0]
kvNullLen == [null |-> TRUE, data |-> <<>>, len |-> 2]
kvNone == [null |-> FALSE, data |-> <<>>, len |-> 0]
kvTwice ==
    [null |-> FALSE,
     data |-> << [key |-> fA, value |-> fA], [key |-> fA, value |-> fB] >>, len |-> 2]
kvNullPair ==
    [null |-> FALSE, data |-> << [key |-> NullPtr, value |-> NullPtr] >>, len |-> 1]

\* topt_KeyNumberArray values of a mock span
knNullLen == [null |-> TRUE, data |-> <<>>, len |-> 1]
knTwice ==
    [null |-> FALSE,
     data |-> << [key |-> fA, value |-> 1], [key |-> fA, value |-> 2] >>, len |-> 2]
knNullKey == [null |-> FALSE, data |-> << [key |-> NullPtr, value |-> 3] >>, len |-> 1]

\* topt_MockSpan values
MockSpanElems ==
    { [span_id |-> 7, trace_id |-> 8, parent_span_id |-> 9,
       start_time |-> [sec |-> 1, nsec |-> 5],
       finish_time |-> [sec |-> 1, nsec |-> NanosPerSec + 7],
       operation_name |-> t[1], string_tags |-> t[2], number_tags |-> t[3]] :
        t \in { <<fA, kvTwice, knTwice>>, <<NullPtr, kvNull, knNullLen>>,
                <<fA, kvNullLen, knNullKey>>, <<fB, kvNone, knTwice>>,
                <<NullPtr, kvNullPair, knNullKey>>, <<fInvalid, kvTwice, knNullLen>> } }

\* the array a mock-tracer read is handed: the recorded spans of a mock
\* tracer the model follows, and else any array
SpansHandedOut(recorded) == IF mockTracer.on THEN MockSpanArray(recorded) ELSE foreign

\* MockTracer::reset
MockTracerReset(reply) ==
    /\ Alive
    /\ last' = [name |-> "reset", outcome |-> "returned", reply |-> reply,
                ret |-> Bool_to_bool(reply)]
    /\ calls' = << [fn |-> "topt_debug_mock_tracer_reset"] >>
    /\ mockTracer' = MockOnReset(mockTracer, reply)
    /\ UNCHANGED <<lifecycle, session, module, suite, test, span, nextId, origin, leaked,
                   foreign, threads, replay>>

\* MockTracer::get_finished_spans
GetFinishedSpans ==
    /\ foreign.kind = "spans" \/ mockTracer.on
    /\ ReadReturns("get_finished_spans", "topt_debug_mock_tracer_get_finished_spans",
                   "topt_debug_mock_tracer_free_mock_span_array",
                   ConvertMockSpanArray(SpansHandedOut(mockTracer.finished)))

\* MockTracer::get_open_spans
GetOpenSpans ==
    /\ foreign.kind = "spans" \/ mockTracer.on
    /\ ReadReturns("get_open_spans", "topt_debug_mock_tracer_get_open_spans",
                   "topt_debug_mock_tracer_free_mock_span_array",
                   ConvertMockSpanArray(SpansHandedOut(mockTracer.open)))

----------------------------------------------------------------------------
(* The settings and mock-tracer reads, for every array the foreign side *)
(* may return                                                           *)

ForeignArrays ==
    ForeignArraysOf("known", KnownElems, 0..MaxLen)
    \cup ForeignArraysOf("skippable", SkippableElems, 0..MaxLen)
    \cup ForeignArraysOf("test_management", TestManagementElems, 0..MaxLen)
    \cup ForeignArraysOf("spans", MockSpanElems, (0..MaxLen) \cup {HugeLen})

\* a host about to read, its library in any lifecycle state (the
\* TestOptimization facade initializes and shuts down without a handle)
InitDecode ==
    /\ lifecycle \in Lifecycles
    /\ HostIdle
    /\ foreign \in ForeignArrays

NextDecode ==
    \/ \E reply \in ByteReplies : Alive /\ Shutdown(reply)
    \/ \E ub \in UBOutcomes : GetKnownTests(ub)
    \/ \E ub \in UBOutcomes : GetSkippableTests(ub)
    \/ \E ub \in UBOutcomes : GetTestManagementTests(ub)
    \/ GetFinishedSpans
    \/ GetOpenSpans

SpecDecode == InitDecode /\ [][NextDecode]_vars

----------------------------------------------------------------------------
(* Operations on a held handle: tags, error info, source, close *)

Kinds == {"session", "module", "suite", "test", "span"}

\* the handle of the given kind that the host holds
Handle(kind) ==
    CASE kind = "session" -> session
      [] kind = "module" -> module
      [] kind = "suite" -> suite
      [] kind = "test" -> test
      [] kind = "span" -> span

\* the identifier a handle passes to the foreign operations on itself
OwnId(h) ==
    CASE h.kind = "session" -> h.session_id
      [] h.kind = "module" -> h.module_id
      [] h.kind = "suite" -> h.suite_id
      [] h.kind = "test" -> h.test_id
      [] h.kind = "span" -> h.span_id

\* CString::new(..).unwrap() of every string of strs succeeds
AllEncode(strs) == \A i \in DOMAIN strs : CStringNew(strs[i]).ok

\* the buffers the strings of strs are encoded to
Encoded(strs) == [i \in DOMAIN strs |-> CStringNew(strs[i]).buf]

\* a mutant of HandleCall: a foreign answer of false is taken for a failure
\* of the binding, which panics
HandleCallExpectingSuccess(name, kind, strs, fn, extra, reply) ==
    /\ Handle(kind) # NoHandle
    /\ IF AllEncode(strs) /\ reply # 0
       THEN /\ calls' = << [fn |-> fn, id |-> OwnId(Handle(kind)),
                            strs |-> Encoded(strs), extra |-> extra] >>
            /\ last' = [name |-> name, kind |-> kind, strs |-> strs,
                        outcome |-> "returned", reply |-> reply,
                        ret |-> Bool_to_bool(reply)]
       ELSE /\ calls' = IF AllEncode(strs)
                        THEN << [fn |-> fn, id |-> OwnId(Handle(kind)),
                                 strs |-> Encoded(strs), extra |-> extra] >>
                        ELSE <<>>
            /\ last' = [name |-> name, kind |-> kind, strs |-> strs,
                        outcome |-> "panicked"]
    /\ mockTracer' = MockOnHandleCall(mockTracer, calls', reply)
    /\ UNCHANGED <<lifecycle, session, module, suite, test, span, nextId, origin, leaked,
                   foreign, threads, replay>>

\* the shape the tag, error, source and close operations share: encode the
\* strings (panic on the first that fails), issue one foreign call on the
\* handle's own id, convert the Bool it returns
HandleCall(name, kind, strs, fn, extra, reply) ==
    /\ Handle(kind) # NoHandle
    /\ IF AllEncode(strs)
       THEN /\ calls' = << [fn |-> fn, id |-> OwnId(Handle(kind)),
                            strs |-> Encoded(strs), extra |-> extra] >>
            /\ last' = [name |-> name, kind |-> kind, strs |-> strs,
                        outcome |-> "returned", reply |-> reply,
                        ret |-> Bool_to_bool(reply)]
       ELSE /\ calls' = <<>>
            /\ last' = [name |-> name, kind |-> kind, strs |-> strs,
                        outcome |-> "panicked"]
    /\ mockTracer' = MockOnHandleCall(mockTracer, calls', reply)
    /\ UNCHANGED <<lifecycle, session, module, suite, test, span, nextId, origin, leaked,
                   foreign, threads, replay>>

\* a key and a value: both valid, or one with an embedded null byte
TagStrs == { <<sA, sB>>, <<sBad, sA>>, <<sA, sBad>> }

\* set_string_tag of TestSession, TestModule, TestSuite, Test and Span
SetStringTag(kind, key, value, reply) ==
    HandleCall("set_string_tag", kind, <<key, value>>,
               "topt_" \o kind \o "_set_string_tag", <<>>, reply)

\* an f64 tag value
NumberValues == {42}

\* set_number_tag of TestSession, TestModule, TestSuite, Test and Span
SetNumberTag(kind, key, value, reply) ==
    HandleCall("set_number_tag", kind, <<key>>,
               "topt_" \o kind \o "_set_number_tag", <<value>>, reply)

\* error type, message and stack trace: all valid, or one with an embedded
\* null byte
ErrorStrs == { <<sA, sB, sEmpty>>, <<sBad, sA, sA>>, <<sA, sBad, sA>>, <<sA, sA, sBad>> }

\* set_error_info of TestSession, TestModule, TestSuite, Test and Span
SetErrorInfo(kind, error_type, error_message, error_stacktrace, reply) ==
    HandleCall("set_error_info", kind, <<error_type, error_message, error_stacktrace>>,
               "topt_" \o kind \o "_set_error", <<>>, reply)

\* the null pointer where a line number may be absent
NullLine == -1

\* start_line and end_line: both absent, or both given
LinePairs == { <<NullLine, NullLine>>, <<10, 20>> }

\* set_test_source of TestSuite and Test
SetTestSource(kind, file, start_line, end_line, reply) ==
    /\ kind \in {"suite", "test"}
    /\ HandleCall("set_test_source", kind, <<file>>,
                  "topt_" \o kind \o "_set_source", <<start_line, end_line>>, reply)

\* close of TestModule, TestSuite and Span
Close(kind, t, reply) ==
    /\ kind \in {"module", "suite", "span"}
    /\ HandleCall("close", kind, <<>>, "topt_" \o kind \o "_close", <<GetNow(t)>>, reply)

\* TestStatus as u8
Pass == 0
Fail == 1
Skip == 2
TestStatuses == {Pass, Fail, Skip}

\* topt_test_close with its topt_TestCloseOptions
TestCloseCall(h, status, skip_reason, now) ==
    [fn |-> "topt_test_close", id |-> h.test_id, status |-> status,
     finish_time |-> now, skip_reason |-> skip_reason]

\* what the operations on a held handle leave unchanged
HandleUnchanged ==
    UNCHANGED <<lifecycle, session, module, suite, test, span, nextId, origin, leaked,
                foreign, threads, replay>>

\* one topt_test_close at the clock reading t, and the conversion of its
\* result
TestCloseReturns(name, strs, status, skip_reason, t, reply) ==
    /\ calls' = << TestCloseCall(test, status, skip_reason, GetNow(t)) >>
    /\ last' = [name |-> name, kind |-> "test", strs |-> strs, status |-> status,
                now |-> GetNow(t), outcome |-> "returned", reply |-> reply,
                ret |-> Bool_to_bool(reply)]
    /\ mockTracer' = MockOnClose(mockTracer, test.test_id, GetNow(t), reply)

\* Test::close
TestClose(status, t, reply) ==
    /\ test # NoHandle
    /\ TestCloseReturns("test_close", <<>>, status, NullPtr, t, reply)
    /\ HandleUnchanged

\* skip reasons: empty, valid, with an embedded null byte
SkipReasons == {sEmpty, sA, sBad}

\* a mutant of CloseWithSkipReason: the empty reason is encoded and passed
\* like any other
CloseWithSkipReasonNoSpecialCase(skip_reason, t, reply) ==
    /\ test # NoHandle
    /\ IF CStringNew(skip_reason).ok
       THEN TestCloseReturns("close_with_skip_reason", <<skip_reason>>, Skip,
                             CStringNew(skip_reason).buf, t, reply)
       ELSE /\ calls' = <<>>
            /\ last' = [name |-> "close_with_skip_reason", kind |-> "test",
                        strs |-> <<skip_reason>>, outcome |-> "panicked"]
            /\ UNCHANGED mockTracer
    /\ HandleUnchanged

\* a mutant of CloseWithSkipReason: the reason is encoded and not attached
CloseWithSkipReasonDroppingReason(skip_reason, t, reply) ==
    /\ test # NoHandle
    /\ IF CStringNew(skip_reason).ok
       THEN TestCloseReturns("close_with_skip_reason", <<skip_reason>>, Skip, NullPtr, t,
                             reply)
       ELSE /\ calls' = <<>>
            /\ last' = [name |-> "close_with_skip_reason", kind |-> "test",
                        strs |-> <<skip_reason>>, outcome |-> "panicked"]
            /\ UNCHANGED mockTracer
    /\ HandleUnchanged

\* Test::close_with_skip_reason; on the empty reason it is self.close(Skip)
CloseWithSkipReason(skip_reason, t, reply) ==
    /\ test # NoHandle
    /\ IF skip_reason # sEmpty
       THEN IF CStringNew(skip_reason).ok
            THEN TestCloseReturns("close_with_skip_reason", <<skip_reason>>, Skip,
                                  CStringNew(skip_reason).buf, t, reply)
            ELSE /\ calls' = <<>>
                 /\ last' = [name |-> "close_with_skip_reason", kind |-> "test",
                             strs |-> <<skip_reason>>, outcome |-> "panicked"]
                 /\ UNCHANGED mockTracer
       ELSE TestCloseReturns("close_with_skip_reason", <<skip_reason>>, Skip, NullPtr, t,
                             reply)
    /\ HandleUnchanged

\* the four names Span::create is given: all valid, or the first or the
\* last with an embedded null byte
SpanStrs ==
    { <<sA, sB, sA, sB>>, <<sBad, sA, sA, sA>>, <<sA, sA, sA, sBad>>,
      <<sEmpty, sA, sA, sA>>, <<sUtf8, sA, sA, sA>> }

\* parent ids the host passes to Span::create: none, or the session's
SpanParents == {0} \cup (IF session = NoHandle THEN {} ELSE {session.session_id})

\* the Span that Span::create returns
NewSpan(parent_id, span_id) ==
    [kind |-> "span", span_id |-> span_id, parent_id |-> parent_id]

\* Span::create
SpanCreate(parent_id, strs, t, reply) ==
    /\ nextId <= MaxId
    /\ IF AllEncode(strs)
       THEN /\ calls' = << [fn |-> "topt_span_create", id |-> parent_id,
                            strs |-> Encoded(strs), start_time |-> GetNow(t)] >>
            /\ mockTracer' = MockOnCreate(mockTracer, reply, parent_id, Encoded(strs)[1],
                                          GetNow(t))
            /\ origin' = [origin EXCEPT !.span = [kind |-> "span_create",
                                                  parent_id |-> parent_id, strs |-> strs,
                                                  now |-> GetNow(t)]]
            /\ span' = NewSpan(parent_id, reply)
            /\ nextId' = nextId + 1
            /\ last' = [name |-> "span_create", strs |-> strs,
                        outcome |-> "returned", reply |-> reply]
       ELSE /\ calls' = <<>>
            /\ last' = [name |-> "span_create", strs |-> strs, outcome |-> "panicked"]
            /\ UNCHANGED <<span, nextId, mockTracer, origin>>
    /\ UNCHANGED <<lifecycle, session, module, suite, test, leaked, foreign, threads,
                   replay>>

----------------------------------------------------------------------------
(* Test operations that marshal a record array: coverage and benchmark data *)

Min(S) == CHOOSE x \in S : \A y \in S : x <= y

\* the loop that fills the record array: entries[i] holds the host strings
\* of record i in the order they are encoded.  It stops at the first string
\* that CString::new rejects; slots are the records written so far and
\* cstrings the number of CStrings made so far
RECURSIVE EncodeLoop(_, _, _)
EncodeLoop(entries, i, acc) ==
    IF i > Len(entries)
    THEN [ok |-> TRUE, slots |-> acc.slots, cstrings |-> acc.cstrings]
    ELSE LET e == entries[i]
             bad == { j \in DOMAIN e : ~CStringNew(e[j]).ok }
         IN IF bad # {}
            THEN [ok |-> FALSE, slots |-> acc.slots,
                  cstrings |-> acc.cstrings + (Min(bad) - 1)]
            ELSE EncodeLoop(entries, i + 1,
                            [slots |-> Append(acc.slots, Encoded(e)),
                             cstrings |-> acc.cstrings + Len(e)])

\* all the strings of the entries, in the order of the entries
RECURSIVE Flatten(_)
Flatten(entries) ==
    IF entries = <<>> THEN <<>> ELSE Head(entries) \o Flatten(Tail(entries))

\* what the loop body does for the i-th entry visited: a CString for each of
\* its strings, dropped again at the end of the iteration instead of kept
\* in the vector
EntryEventsDropping(entries, i) ==
    LET e == entries[i]
        b(j) == (i - 1) * Len(e) + j
    IN [j \in DOMAIN e |-> [ev |-> "cstring", buf |-> b(j), bytes |-> CStringNew(e[j]).buf]]
       \o << [ev |-> "write", slot |-> i - 1, ptrs |-> [j \in DOMAIN e |-> b(j)]] >>
       \o [j \in DOMAIN e |-> [ev |-> "drop", buf |-> b(j)]]

\* what the loop body does for the i-th entry visited: a CString for each of
\* its strings, then one write of the record of their pointers to the slot
\* i - 1 of the array; the CStrings are pushed to the vector `cstrings`
EntryEvents(entries, i) ==
    LET e == entries[i]
        b(j) == (i - 1) * Len(e) + j
    IN [j \in DOMAIN e |-> [ev |-> "cstring", buf |-> b(j), bytes |-> CStringNew(e[j]).buf]]
       \o << [ev |-> "write", slot |-> i - 1, ptrs |-> [j \in DOMAIN e |-> b(j)]] >>

\* the loop over the entries, from the i-th on
RECURSIVE FillEvents(_, _)
FillEvents(entries, i) ==
    IF i > Len(entries) THEN <<>> ELSE EntryEvents(entries, i) \o FillEvents(entries, i + 1)

\* the buffers that the vector `cstrings` holds after the loop
KeptBuffers(events) ==
    { events[k].buf : k \in { k \in DOMAIN events : events[k].ev = "cstring" } }
    \ { events[k].buf : k \in { k \in DOMAIN events : events[k].ev = "drop" } }

\* what a marshaling operation that returns does, in order: alloc(layout),
\* the loop, the CString of measure_type if there is one, the foreign call,
\* dealloc, and at the end of the scope the drop of every CString still held
MarshalEvents(entries, measure) ==
    LET filled == FillEvents(entries, 1)
        held == KeptBuffers(filled)
        m == Len(Flatten(entries)) + 1
        drops == SelectSeq([b \in 1..(m - 1) |-> [ev |-> "drop", buf |-> b]],
                           LAMBDA d : d.buf \in held)
    IN << [ev |-> "alloc"] >>
       \o filled
       \o [j \in DOMAIN measure |->
             [ev |-> "cstring", buf |-> m, bytes |-> CStringNew(measure[j]).buf]]
       \o << [ev |-> "call"], [ev |-> "dealloc"] >>
       \o [j \in DOMAIN measure |-> [ev |-> "drop", buf |-> m]]
       \o drops

\* what the marshaling operations leave unchanged
MarshalUnchanged ==
    UNCHANGED <<lifecycle, session, module, suite, test, span, nextId, origin, foreign,
                mockTracer, threads, replay>>

\* the call panicked after alloc(layout) and before dealloc: the CStrings
\* made so far are dropped by the unwinding, the record array is not released
PanicAfterAlloc(name, strs, made) ==
    /\ calls' = <<>>
    /\ last' = [name |-> name, kind |-> "test", strs |-> strs, outcome |-> "panicked",
                array_allocs |-> 1, array_frees |-> 0,
                cstrings |-> made, cstrings_dropped |-> made]
    /\ leaked' = leaked + 1

\* file lists of set_coverage_data
CoverageFiles == SeqsUpTo({sA, sBad}, MaxLen)

\* what alloc returns for a layout of size zero, which is undefined
\* behaviour: a null pointer or a pointer to nothing
ZeroAllocOutcomes == {"null", "dangling"}

ZeroAlloc(len) == IF len = 0 THEN ZeroAllocOutcomes ELSE {"array"}

\* Test::set_coverage_data
SetCoverageData(files, ptr) ==
    /\ test # NoHandle
    /\ leaked < MaxLeaked
    /\ LET r == EncodeLoop([i \in DOMAIN files |-> <<files[i]>>], 1,
                           [slots |-> <<>>, cstrings |-> 0])
       IN IF ~r.ok
          THEN PanicAfterAlloc("set_coverage_data", files, r.cstrings)
          ELSE /\ calls' = << [fn |-> "topt_send_code_coverage_payload",
                               session_id |-> test.session_id,
                               suite_id |-> test.suite_id,
                               test_id |-> test.test_id,
                               files |-> [ptr |-> ptr,
                                          data |-> [i \in DOMAIN r.slots |->
                                                      [filename |-> r.slots[i][1],
                                                       bitmap |-> NullPtr,
                                                       bitmap_len |-> 0]]],
                               files_len |-> Len(files),
                               count |-> 1] >>
               /\ last' = [name |-> "set_coverage_data", kind |-> "test", strs |-> files,
                           outcome |-> "returned",
                           entries |-> [i \in DOMAIN files |-> <<files[i]>>],
                           events |-> MarshalEvents([i \in DOMAIN files |-> <<files[i]>>],
                                                    <<>>),
                           array_allocs |-> 1, array_frees |-> 1,
                           cstrings |-> r.cstrings, cstrings_dropped |-> r.cstrings]
               /\ UNCHANGED leaked
    /\ MarshalUnchanged

\* keys of a benchmark map
BenchKeys == {sA, sB, sBad}

KeySets == { K \in SUBSET BenchKeys : Cardinality(K) <= MaxLen }

\* benchmark maps of strings: every value valid, or one value with an
\* embedded null byte
StringMaps ==
    { [k \in K |-> sA] : K \in KeySets }
    \cup { [k \in {sA} |-> sBad], [k \in {sA, sB} |-> IF k = sB THEN sBad ELSE sA] }

\* benchmark maps of numbers
NumberMaps == { [k \in K |-> 42] : K \in KeySets }

\* the orders in which HashMap::iter may visit the keys of data
Orders(data) ==
    LET K == DOMAIN data
    IN { o \in [1..Cardinality(K) -> K] : \A i, j \in DOMAIN o : i # j => o[i] # o[j] }

MeasureTypes == {sA, sBad}

\* a mutant of EmptyBenchmark: the empty map is sent like any other
EmptyBenchmarkSending(name, measure_type) ==
    /\ calls' = << [fn |-> "topt_test_" \o name, id |-> test.test_id,
                    measure_type |-> CStringNew(measure_type).buf,
                    data |-> <<>>, len |-> 0] >>
    /\ last' = [name |-> name, kind |-> "test", strs |-> <<measure_type>>,
                outcome |-> "returned", ret |-> TRUE,
                array_allocs |-> 1, array_frees |-> 1,
                cstrings |-> 1, cstrings_dropped |-> 1]
    /\ UNCHANGED leaked

\* the early return of the benchmark operations on an empty map
EmptyBenchmark(name, measure_type) ==
    /\ calls' = <<>>
    /\ last' = [name |-> name, kind |-> "test", strs |-> <<measure_type>>,
                outcome |-> "returned", ret |-> TRUE,
                array_allocs |-> 0, array_frees |-> 0,
                cstrings |-> 0, cstrings_dropped |-> 0]
    /\ UNCHANGED leaked

\* the benchmark operations once the record array is filled: encode
\* measure_type, call, release the array
SendBenchmark(name, fn, measure_type, strs, entries, made, array, reply) ==
    IF ~CStringNew(measure_type).ok
    THEN PanicAfterAlloc(name, strs, made)
    ELSE /\ calls' = << [fn |-> fn, id |-> test.test_id,
                         measure_type |-> CStringNew(measure_type).buf,
                         data |-> array, len |-> Len(array)] >>
         /\ last' = [name |-> name, kind |-> "test", strs |-> strs,
                     outcome |-> "returned", reply |-> reply, ret |-> Bool_to_bool(reply),
                     entries |-> entries,
                     events |-> MarshalEvents(entries, <<measure_type>>),
                     array_allocs |-> 1, array_frees |-> 1,
                     cstrings |-> made + 1, cstrings_dropped |-> made + 1]
         /\ UNCHANGED leaked

\* Test::set_benchmark_string_data; order is the order in which the map is
\* iterated
SetBenchmarkStringData(measure_type, data, order, reply) ==
    /\ test # NoHandle
    /\ leaked < MaxLeaked
    /\ LET entries == [i \in DOMAIN order |-> <<order[i], data[order[i]]>>]
           strs == <<measure_type>> \o Flatten(entries)
           r == EncodeLoop(entries, 1, [slots |-> <<>>, cstrings |-> 0])
       IN IF DOMAIN data = {}
          THEN EmptyBenchmark("set_benchmark_string_data", measure_type)
          ELSE IF ~r.ok
          THEN PanicAfterAlloc("set_benchmark_string_data", strs, r.cstrings)
          ELSE SendBenchmark("set_benchmark_string_data",
                             "topt_test_set_benchmark_string_data", measure_type, strs,
                             entries, r.cstrings,
                             [i \in DOMAIN r.slots |->
                                [key |-> r.slots[i][1], value |-> r.slots[i][2]]],
                             reply)
    /\ MarshalUnchanged

\* Test::set_benchmark_number_data
SetBenchmarkNumberData(measure_type, data, order, reply) ==
    /\ test # NoHandle
    /\ leaked < MaxLeaked
    /\ LET entries == [i \in DOMAIN order |-> <<order[i]>>]
           strs == <<measure_type>> \o Flatten(entries)
           r == EncodeLoop(entries, 1, [slots |-> <<>>, cstrings |-> 0])
       IN IF DOMAIN data = {}
          THEN EmptyBenchmark("set_benchmark_number_data", measure_type)
          ELSE IF ~r.ok
          THEN PanicAfterAlloc("set_benchmark_number_data", strs, r.cstrings)
          ELSE SendBenchmark("set_benchmark_number_data",
                             "topt_test_set_benchmark_number_data", measure_type, strs,
                             entries, r.cstrings,
                             [i \in DOMAIN r.slots |->
                                [key |-> r.slots[i][1], value |-> data[order[i]]]],
                             reply)
    /\ MarshalUnchanged

----------------------------------------------------------------------------
(* The operations on held handles *)

\* a host that has initialized the library and holds a session, a module of
\* it and a suite of the module; one identifier is left to hand out
InitOps ==
    /\ lifecycle = "initialized"
    /\ session = [kind |-> "session", session_id |-> 1]
    /\ module = NewModule(session, 2)
    /\ suite = NewSuite(module, 3)
    /\ test = NoHandle
    /\ span = NoHandle
    /\ nextId = MaxId
    /\ origin = [module |-> session, suite |-> module, test |-> NoHandle, span |-> NoHandle]
    /\ last = NoCall
    /\ calls = <<>>
    /\ leaked = 0
    /\ foreign = NoArray
    /\ mockTracer = NoMock
    /\ threads = NoThreads
    /\ replay = NoReplay

NextOps ==
    \/ \E a \in InitArgs, windows \in BOOLEAN, reply \in ByteReplies, sid \in CreateReplies :
          InitWithValues(a, windows, reply, sid)
    \/ \E t \in ModuleStrs, reply \in CreateReplies :
          CreateModule(t[1], t[2], t[3], reply)
    \/ \E n \in CreateStrs, reply \in CreateReplies : CreateTestSuite(n, reply)
    \/ \E n \in CreateStrs, t \in ClockReadings, reply \in CreateReplies :
          CreateTest(n, t, reply)
    \/ \E p \in SpanParents, n \in SpanStrs, t \in ClockReadings, reply \in CreateReplies :
          SpanCreate(p, n, t, reply)
    \/ \E kind \in Kinds, t \in TagStrs, reply \in ByteReplies :
          SetStringTag(kind, t[1], t[2], reply)
    \/ \E kind \in Kinds, key \in CreateStrs, value \in NumberValues, reply \in ByteReplies :
          SetNumberTag(kind, key, value, reply)
    \/ \E kind \in Kinds, t \in ErrorStrs, reply \in ByteReplies :
          SetErrorInfo(kind, t[1], t[2], t[3], reply)
    \/ \E kind \in Kinds, file \in CreateStrs, l \in LinePairs, reply \in ByteReplies :
          SetTestSource(kind, file, l[1], l[2], reply)
    \/ \E kind \in Kinds, t \in ClockReadings, reply \in ByteReplies : Close(kind, t, reply)
    \/ \E status \in TestStatuses, t \in ClockReadings, reply \in ByteReplies :
          TestClose(status, t, reply)
    \/ \E skip_reason \in SkipReasons, t \in ClockReadings, reply \in ByteReplies :
          CloseWithSkipReason(skip_reason, t, reply)
    \/ \E files \in CoverageFiles, ptr \in ZeroAllocOutcomes \cup {"array"} :
          ptr \in ZeroAlloc(Len(files)) /\ SetCoverageData(files, ptr)
    \/ \E measure_type \in MeasureTypes, data \in StringMaps, reply \in ByteReplies :
          \E order \in Orders(data) :
             SetBenchmarkStringData(measure_type, data, order, reply)
    \/ \E measure_type \in MeasureTypes, data \in NumberMaps, reply \in ByteReplies :
          \E order \in Orders(data) :
             SetBenchmarkNumberData(measure_type, data, order, reply)

SpecOps == InitOps /\ [][NextOps]_vars

----------------------------------------------------------------------------
(* The lifecycle of the library: TestSession and the TestOptimization
   facade *)

\* the calls of init_with_values whose strings all encode
ValidInitArgs == { a \in InitArgs : InitArgsEncode(a) }

\* a host that uses the mock tracer: it initializes, creates a span under
\* the session or under no parent when the tracer holds none, closes it,
\* reads the tracer and resets it
NextMock ==
    \/ \E a \in ValidInitArgs, reply \in ByteReplies, sid \in CreateReplies :
          InitWithValues(a, FALSE, reply, sid)
    \/ \E p \in SpanParents, n \in SpanStrs, t \in ClockReadings, reply \in CreateReplies :
          /\ mockTracer.open = <<>> /\ mockTracer.finished = <<>>
          /\ SpanCreate(p, n, t, reply)
    \/ \E t \in ClockReadings, reply \in ByteReplies : Close("span", t, reply)
    \/ \E reply \in ByteReplies : MockTracerReset(reply)
    \/ GetFinishedSpans
    \/ GetOpenSpans

SpecMock == Init /\ [][NextMock]_vars

----------------------------------------------------------------------------
(* The settings, and every operation that returns a foreign boolean *)

\* the boolean fields of topt_SettingsResponse
SettingsFlags ==
    {"code_coverage", "early_flake_detection", "flaky_test_retries_enabled", "itr_enabled",
     "require_git", "tests_skipping", "known_tests_enabled", "test_management"}

\* the topt_SettingsResponse whose boolean fields hold the bytes f
SettingsResponse(f) ==
    [code_coverage |-> f["code_coverage"],
     early_flake_detection |->
        [enabled |-> f["early_flake_detection"],
         slow_test_retries |-> [ten_s |-> 10, thirty_s |-> 30, five_m |-> 300, five_s |-> 5],
         faulty_session_threshold |-> 30],
     flaky_test_retries_enabled |-> f["flaky_test_retries_enabled"],
     itr_enabled |-> f["itr_enabled"],
     require_git |-> f["require_git"],
     tests_skipping |-> f["tests_skipping"],
     known_tests_enabled |-> f["known_tests_enabled"],
     test_management |-> [enabled |-> f["test_management"], attempt_to_fix_retries |-> 20]]

\* responses whose flags all hold one byte, or all 0 but one
SettingsResponses ==
    { SettingsResponse([n \in SettingsFlags |-> b]) : b \in ByteReplies }
    \cup { SettingsResponse([n \in SettingsFlags |-> IF n = m THEN b ELSE 0]) :
             m \in SettingsFlags, b \in {1, 2, 255} }

\* TestSession::get_settings and TestOptimization::get_settings
GetSettings(settings_response) ==
    /\ Alive
    /\ calls' = << [fn |-> "topt_get_settings"] >>
    /\ last' =
          [name |-> "get_settings", outcome |-> "returned", response |-> settings_response,
           result |->
              [code_coverage |-> Bool_to_bool(settings_response.code_coverage),
               early_flake_detection |->
                  [enabled |-> Bool_to_bool(settings_response.early_flake_detection.enabled),
                   slow_test_retries |->
                      settings_response.early_flake_detection.slow_test_retries,
                   faulty_session_threshold |->
                      settings_response.early_flake_detection.faulty_session_threshold],
               flaky_test_retries_enabled |->
                  Bool_to_bool(settings_response.flaky_test_retries_enabled),
               itr_enabled |-> Bool_to_bool(settings_response.itr_enabled),
               require_git |-> Bool_to_bool(settings_response.require_git),
               tests_skipping |-> Bool_to_bool(settings_response.tests_skipping),
               known_tests_enabled |-> Bool_to_bool(settings_response.known_tests_enabled),
               test_management |->
                  [enabled |-> Bool_to_bool(settings_response.test_management.enabled),
                   attempt_to_fix_retries |->
                      settings_response.test_management.attempt_to_fix_retries]]]
    /\ UNCHANGED <<lifecycle, session, module, suite, test, span, nextId, origin, leaked,
                   foreign, mockTracer, threads, replay>>

\* a host that holds a session, a module, a suite and a test, about to read
\* the test-management tests from an array of one record
InitBooleans ==
    /\ lifecycle = "initialized"
    /\ session = [kind |-> "session", session_id |-> 1]
    /\ module = NewModule(session, 2)
    /\ suite = NewSuite(module, 3)
    /\ test = NewTest(suite, 4)
    /\ span = NoHandle
    /\ nextId = 5
    /\ origin = [module |-> session, suite |-> module, test |-> suite, span |-> NoHandle]
    /\ last = NoCall
    /\ calls = <<>>
    /\ leaked = 0
    /\ foreign \in { a \in ForeignArraysOf("test_management", TestManagementElems, {0}) :
                        a.len = 1 /\ NullPtr \notin StrPtrs("test_management", a.data[1]) }
    /\ mockTracer = NoMock
    /\ threads = NoThreads
    /\ replay = NoReplay

\* every operation that returns a boolean of the foreign side, on valid
\* strings; reset is answered with every byte
NextBooleans ==
    \/ \E a \in ValidInitArgs, reply \in ByteReplies :
          ~a.use_mock_tracer /\ Initialize(a, FALSE, reply)
    \/ \E reply \in ByteReplies : Shutdown(reply)
    \/ \E reply \in Bytes : MockTracerReset(reply)
    \/ \E settings_response \in SettingsResponses : GetSettings(settings_response)
    \/ \E ub \in UBOutcomes : ~ub.crash /\ ub.str = sEmpty /\ GetTestManagementTests(ub)
    \/ \E kind \in Kinds, reply \in ByteReplies : SetStringTag(kind, sA, sB, reply)
    \/ \E kind \in Kinds, reply \in ByteReplies : SetNumberTag(kind, sA, 42, reply)
    \/ \E kind \in Kinds, reply \in ByteReplies : SetErrorInfo(kind, sA, sB, sEmpty, reply)
    \/ \E kind \in Kinds, reply \in ByteReplies :
          SetTestSource(kind, sA, NullLine, NullLine, reply)
    \/ \E kind \in Kinds, reply \in ByteReplies : Close(kind, 7, reply)
    \/ \E status \in TestStatuses, reply \in ByteReplies : TestClose(status, 7, reply)
    \/ \E reply \in ByteReplies : CloseWithSkipReason(sA, 7, reply)
    \/ \E reply \in ByteReplies :
          SetBenchmarkStringData(sA, [k \in {sA} |-> sB], <<sA>>, reply)
    \/ \E reply \in ByteReplies :
          SetBenchmarkNumberData(sA, [k \in {sA} |-> 42], <<sA>>, reply)

SpecBooleans == InitBooleans /\ [][NextBooleans]_vars

----------------------------------------------------------------------------
(* Repeated initialize -> shutdown cycles *)

\* a host that holds a test runs cycles of initialize and shutdown, with
\* entity, settings, read and mock-tracer operations in between
NextCycles ==
    \/ \E a \in ValidInitArgs, reply \in ByteReplies : Initialize(a, FALSE, reply)
    \/ \E reply \in ByteReplies : Shutdown(reply)
    \/ \E reply \in ByteReplies : MockTracerReset(reply)
    \/ GetSettings(SettingsResponse([n \in SettingsFlags |-> 1]))
    \/ \E ub \in UBOutcomes : ~ub.crash /\ ub.str = sEmpty /\ GetTestManagementTests(ub)
    \/ \E kind \in Kinds, reply \in ByteReplies : SetStringTag(kind, sA, sB, reply)
    \/ \E status \in TestStatuses, reply \in ByteReplies : TestClose(status, 7, reply)
    \/ \E files \in CoverageFiles : Len(files) > 0 /\ SetCoverageData(files, "array")
    \/ \E measure_type \in MeasureTypes, data \in StringMaps, reply \in ByteReplies :
          \E order \in Orders(data) :
             SetBenchmarkStringData(measure_type, data, order, reply)
    \/ \E measure_type \in MeasureTypes, data \in NumberMaps, reply \in ByteReplies :
          \E order \in Orders(data) :
             SetBenchmarkNumberData(measure_type, data, order, reply)

SpecCycles == InitBooleans /\ [][NextCycles]_vars

----------------------------------------------------------------------------
(* Tests and spans, and the operations on them after their close *)

\* a host that has initialized the library with the mock tracer and holds
\* a session, a module of it and a suite of the module; one identifier is
\* left to hand out
InitAfterClose ==
    /\ lifecycle = "initialized"
    /\ session = [kind |-> "session", session_id |-> 1]
    /\ module = NewModule(session, 2)
    /\ suite = NewSuite(module, 3)
    /\ test = NoHandle
    /\ span = NoHandle
    /\ nextId = MaxId
    /\ origin = [module |-> session, suite |-> module, test |-> NoHandle, span |-> NoHandle]
    /\ last = NoCall
    /\ calls = <<>>
    /\ leaked = 0
    /\ foreign = NoArray
    /\ mockTracer = EmptyMock
    /\ threads = NoThreads
    /\ replay = NoReplay

\* the host creates a test or a span and calls its operations in any
\* order, also after its close
NextAfterClose ==
    \/ \E reply \in CreateReplies : CreateTest(sA, 7, reply)
    \/ \E reply \in CreateReplies : SpanCreate(session.session_id, <<sA, sA, sA, sA>>, 7, reply)
    \/ \E kind \in {"test", "span"}, t \in TagStrs, reply \in ByteReplies :
          SetStringTag(kind, t[1], t[2], reply)
    \/ \E kind \in {"test", "span"}, key \in CreateStrs, reply \in ByteReplies :
          SetNumberTag(kind, key, 42, reply)
    \/ \E kind \in {"test", "span"}, t \in ErrorStrs, reply \in ByteReplies :
          SetErrorInfo(kind, t[1], t[2], t[3], reply)
    \/ \E file \in CreateStrs, l \in LinePairs, reply \in ByteReplies :
          SetTestSource("test", file, l[1], l[2], reply)
    \/ \E t \in ClockReadings, reply \in ByteReplies : Close("span", t, reply)
    \/ \E status \in TestStatuses, t \in ClockReadings, reply \in ByteReplies :
          TestClose(status, t, reply)
    \/ \E skip_reason \in SkipReasons, t \in ClockReadings, reply \in ByteReplies :
          CloseWithSkipReason(skip_reason, t, reply)

SpecAfterClose == InitAfterClose /\ [][NextAfterClose]_vars

----------------------------------------------------------------------------
(* Host threads on copies of one Test handle *)

\* a mutant of Allocatable: alloc may return a block that is still in use
AllocatableAlways(b) == TRUE

\* alloc(layout) of the global allocator returns a block that is not in use
Allocatable(b) == ~threads.heap[b].live

\* a thread clones the handle and enters set_benchmark_string_data with a
\* map that is iterated as entries
ThreadBegin(t, entries) ==
    /\ test # NoHandle
    /\ threads.of[t].pc = "idle"
    /\ threads' = [threads EXCEPT !.of[t] = [pc |-> "alloc", handle |-> test,
                                             entries |-> entries, i |-> 0, buf |-> 0]]
    /\ UNCHANGED <<lifecycle, session, module, suite, test, span, nextId, origin, last, calls,
                   leaked, foreign, mockTracer, replay>>

\* the next step of the thread t inside set_benchmark_string_data: alloc
\* returns the block b, one record is written to the array, the foreign
\* call is made and answers reply, or the array is released and the call
\* returns; a block that only the thread it was handed to has used is
\* forgotten once it is released
ThreadStep(t, b, reply) ==
    LET my == threads.of[t]
        e == my.entries[my.i + 1]
        kv == [key |-> CStringNew(e[1]).buf, value |-> CStringNew(e[2]).buf]
        unwritten == [key |-> NullPtr, value |-> NullPtr]
        at(slots, k) == IF k = my.i + 1 THEN kv
                        ELSE IF k <= Len(slots) THEN slots[k] ELSE unwritten
        more(n) == IF n > my.i + 1 THEN n ELSE my.i + 1
    IN /\ \/ /\ my.pc = "alloc"
             /\ Allocatable(b)
             /\ threads' = [threads EXCEPT
                              !.of[t].pc = "fill",
                              !.of[t].buf = b,
                              !.heap[b] = [live |-> TRUE, owner |-> t,
                                           slots |-> IF @.live THEN @.slots ELSE <<>>,
                                           touched |-> IF @.live THEN @.touched ELSE {}]]
             /\ UNCHANGED <<last, calls>>
          \/ /\ my.pc = "fill"
             /\ threads' = [threads EXCEPT
                              !.of[t].i = @ + 1,
                              !.of[t].pc = IF my.i + 1 = Len(my.entries) THEN "call"
                                           ELSE "fill",
                              !.heap[my.buf].slots = [k \in 1..more(Len(@)) |-> at(@, k)],
                              !.heap[my.buf].touched = @ \cup {t}]
             /\ UNCHANGED <<last, calls>>
          \/ /\ my.pc = "call"
             /\ calls' = << [fn |-> "topt_test_set_benchmark_string_data",
                             id |-> my.handle.test_id,
                             measure_type |-> CStringNew(sA).buf,
                             data |-> threads.heap[my.buf].slots,
                             len |-> Len(my.entries)] >>
             /\ last' = [name |-> "set_benchmark_string_data", kind |-> "test",
                         thread |-> t, entries |-> my.entries, outcome |-> "returned",
                         reply |-> reply, ret |-> Bool_to_bool(reply)]
             /\ threads' = [threads EXCEPT !.of[t].pc = "dealloc",
                                           !.heap[my.buf].touched = @ \cup {t}]
          \/ /\ my.pc = "dealloc"
             /\ threads' = [threads EXCEPT
                              !.of[t] = [pc |-> "idle", handle |-> NoHandle,
                                         entries |-> <<>>, i |-> 0, buf |-> 0],
                              !.heap[my.buf] =
                                  IF @.touched \cup {t} = {@.owner}
                                  THEN [live |-> FALSE, owner |-> 0, slots |-> <<>>,
                                        touched |-> {}]
                                  ELSE [@ EXCEPT !.live = FALSE,
                                                 !.touched = @ \cup {t}]]
             /\ UNCHANGED <<last, calls>>
       /\ UNCHANGED <<lifecycle, session, module, suite, test, span, nextId, origin, leaked,
                      foreign, mockTracer, replay>>

\* a host that holds a test, and threads that have not called anything yet
InitThreads ==
    /\ lifecycle = "initialized"
    /\ session = [kind |-> "session", session_id |-> 1]
    /\ module = NewModule(session, 2)
    /\ suite = NewSuite(module, 3)
    /\ test = NewTest(suite, 4)
    /\ span = NoHandle
    /\ nextId = 5
    /\ origin = [module |-> session, suite |-> module, test |-> suite, span |-> NoHandle]
    /\ last = NoCall
    /\ calls = <<>>
    /\ leaked = 0
    /\ foreign = NoArray
    /\ mockTracer = NoMock
    /\ threads = [of |-> [t \in 1..MaxThreads |->
                             [pc |-> "idle", handle |-> NoHandle, entries |-> <<>>,
                              i |-> 0, buf |-> 0]],
                  heap |-> [b \in 1..MaxThreads |->
                               [live |-> FALSE, owner |-> 0, slots |-> <<>>, touched |-> {}]]]
    /\ replay = NoReplay

\* each thread passes a map of two entries with values of its own
NextThreads ==
    \/ \E t \in 1..MaxThreads : ThreadBegin(t, << <<sA, <<96 + t>> >>, <<sB, <<64 + t>> >> >>)
    \/ \E t, b \in 1..MaxThreads, reply \in {0, 1} : ThreadStep(t, b, reply)

SpecThreads == InitThreads /\ [][NextThreads]_vars

----------------------------------------------------------------------------
(* A run with the mock tracer and its repetition without it *)

\* l and m are the same API call with the same arguments and the same
\* foreign answers, use_mock_tracer apart: they agree on the fields of
\* `last` that hold what the host passed and what the foreign side answered
SameApiCall(l, m) ==
    LET InputFields == {"args", "strs", "reply", "created", "exit_code", "panicking", "kind"}
        WithoutFlag(r) ==
            IF "args" \in DOMAIN r THEN [r EXCEPT !.args.use_mock_tracer = FALSE] ELSE r
    IN /\ l.name = m.name
       /\ \A f \in InputFields :
             /\ (f \in DOMAIN l) = (f \in DOMAIN m)
             /\ f \in DOMAIN l => WithoutFlag(l)[f] = WithoutFlag(m)[f]

\* the first run is started with init_mock or init_mock_with_working_dir,
\* the second with init or init_with_working_dir
RunArgs ==
    { [language |-> sA, runtime_name |-> sA, runtime_version |-> t[1],
       working_directory |-> t[2], use_mock_tracer |-> (replay.run = 1)] :
        t \in { <<sA, NullPtr>>, <<sA, sB>>, <<sBad, NullPtr>> } }

\* the host may issue its next API call: the last one has been written
\* down, the first run makes at most MaxScript of them, the second as many
\* as the first
MayCall ==
    /\ replay.seen = <<last, calls>>
    /\ IF replay.run = 1 THEN Len(replay.script) < MaxScript
       ELSE Len(replay.reissued) < Len(replay.script)

\* the call just made is told apart from the one before it, and in the
\* second run it is the call that the first run made at this position
Repeats ==
    /\ <<last', calls'>> # <<last, calls>>
    /\ replay.run = 2 => SameApiCall(last', replay.script[Len(replay.reissued) + 1])

\* the API call just made and the foreign calls it issued are written down
Record ==
    /\ replay.seen # <<last, calls>>
    /\ replay' =
          IF replay.run = 1
          THEN [replay EXCEPT !.script = Append(@, last), !.issued = Append(@, calls),
                              !.seen = <<last, calls>>]
          ELSE [replay EXCEPT !.reissued = Append(@, calls), !.seen = <<last, calls>>]
    /\ UNCHANGED <<lifecycle, session, module, suite, test, span, nextId, origin, last, calls,
                   leaked, foreign, mockTracer, threads>>

\* the host program is started again, without the mock tracer
Rerun ==
    /\ replay.run = 1
    /\ replay.seen = <<last, calls>>
    /\ replay.script # <<>>
    /\ lifecycle' = "uninitialized"
    /\ session' = NoHandle
    /\ module' = NoHandle
    /\ suite' = NoHandle
    /\ test' = NoHandle
    /\ span' = NoHandle
    /\ nextId' = 1
    /\ origin' = NoOrigin
    /\ last' = NoCall
    /\ calls' = <<>>
    /\ leaked' = 0
    /\ mockTracer' = NoMock
    /\ replay' = [replay EXCEPT !.run = 2, !.seen = <<NoCall, <<>>>>]
    /\ UNCHANGED <<foreign, threads>>

\* the host before the first run; without the mock tracer the foreign side
\* answers the span reads with an empty array
InitTwin ==
    /\ lifecycle = "uninitialized"
    /\ session = NoHandle
    /\ module = NoHandle
    /\ suite = NoHandle
    /\ test = NoHandle
    /\ span = NoHandle
    /\ nextId = 1
    /\ origin = NoOrigin
    /\ last = NoCall
    /\ calls = <<>>
    /\ leaked = 0
    /\ foreign = MockSpanArray(<<>>)
    /\ mockTracer = NoMock
    /\ threads = NoThreads
    /\ replay = [NoReplay EXCEPT !.run = 1]

NextTwin ==
    \/ \E a \in RunArgs, reply \in {0, 1}, sid \in CreateReplies :
          MayCall /\ InitWithValues(a, FALSE, reply, sid) /\ Repeats
    \/ MayCall /\ SessionClose(0, FALSE, 1) /\ Repeats
    \/ \E reply \in CreateReplies : MayCall /\ CreateModule(sA, sB, sEmpty, reply) /\ Repeats
    \/ \E n \in {sA, sBad}, reply \in CreateReplies :
          MayCall /\ SpanCreate(0, <<n, sA, sA, sA>>, 7, reply) /\ Repeats
    \/ \E kind \in {"session", "span"}, value \in {sA, sBad} :
          MayCall /\ SetStringTag(kind, sA, value, 1) /\ Repeats
    \/ \E kind \in {"module", "span"}, reply \in {0, 1} :
          MayCall /\ Close(kind, 7, reply) /\ Repeats
    \/ \E reply \in {0, 1} : MayCall /\ MockTracerReset(reply) /\ Repeats
    \/ MayCall /\ GetFinishedSpans /\ Repeats
    \/ MayCall /\ GetOpenSpans /\ Repeats
    \/ Record
    \/ Rerun

SpecTwin == InitTwin /\ [][NextTwin]_vars

NextLifecycle ==
    \/ \E a \in InitArgs, windows \in BOOLEAN, reply \in ByteReplies, sid \in CreateReplies :
          InitWithValues(a, windows, reply, sid)
    \/ \E a \in InitArgs, windows \in BOOLEAN, reply \in ByteReplies :
          Initialize(a, windows, reply)
    \/ \E reply \in ByteReplies : Shutdown(reply)
    \/ \E exit_code \in ExitCodes, panicking \in BOOLEAN, reply \in ByteReplies :
          SessionClose(exit_code, panicking, reply)

SpecLifecycle == Init /\ [][NextLifecycle]_vars

----------------------------------------------------------------------------
(* Properties of TestSession::close *)

\* the positions of the calls of the foreign function fn among the calls
\* of the last API call
CallsOf(fn) == { i \in 1..Len(calls) : calls[i].fn = fn }

\* C1: TestSession::close hands the foreign session-close the exit code 1
\* when the calling thread is unwinding from a panic, whatever the caller
\* supplied, and the caller's exit code unchanged otherwise.
C1_CloseExitCode ==
    last.name = "session_close" =>
        /\ CallsOf("topt_session_close") # {}
        /\ \A i \in CallsOf("topt_session_close") :
              calls[i].exit_code = IF last.panicking THEN 1 ELSE last.exit_code

\* a close with exit code 0 while unwinding has issued its session-close
C1_Witness ==
    /\ last.name = "session_close"
    /\ last.panicking
    /\ last.exit_code = 0
    /\ calls[1].fn = "topt_session_close"
    /\ calls[1].exit_code = 1

\* C2: every TestSession::close, unwinding or not, issues the foreign
\* shutdown exactly once, after its session-close call and before it returns.
C2_ShutdownOnceAfterClose ==
    last.name = "session_close" =>
        /\ last.outcome = "returned"
        /\ Cardinality(CallsOf("topt_shutdown")) = 1
        /\ Cardinality(CallsOf("topt_session_close")) = 1
        /\ \A i \in CallsOf("topt_shutdown"), j \in CallsOf("topt_session_close") : j < i

\* a close on the unwinding branch has shut the library down
C2_Witness ==
    /\ last.name = "session_close"
    /\ last.panicking
    /\ Len(calls) = 2
    /\ calls[2].fn = "topt_shutdown"
    /\ lifecycle = "shut_down"

----------------------------------------------------------------------------
(* Properties of the handles *)

\* C6: every module handle carries the session id of the session handle it
\* was created from, every suite handle the module id and session id of its
\* module handle, every test handle the suite, module and session id of its
\* suite handle, whatever id the foreign create call returned.
C6_AncestorIds ==
    /\ module # NoHandle =>
          module.session_id = origin.module.session_id
    /\ suite # NoHandle =>
          /\ suite.module_id = origin.suite.module_id
          /\ suite.session_id = origin.suite.session_id
    /\ test # NoHandle =>
          /\ test.suite_id = origin.test.suite_id
          /\ test.module_id = origin.test.module_id
          /\ test.session_id = origin.test.session_id

\* a test was created under a suite, a module and a session whose ids all
\* differ, and the session handle has since been replaced by another
C6_Witness ==
    /\ test # NoHandle
    /\ Cardinality({test.session_id, test.module_id, test.suite_id, test.test_id}) = 4
    /\ session.session_id # test.session_id
    /\ last.name = "create_test"

----------------------------------------------------------------------------
(* Properties of the settings and mock-tracer reads *)

CatalogReads == {"get_known_tests", "get_skippable_tests", "get_test_management_tests"}

SpanReads == {"get_finished_spans", "get_open_spans"}

\* the foreign free operation that matches a foreign getter
MatchingFree(getter) ==
    CASE getter = "topt_get_known_tests" -> "topt_free_known_tests"
      [] getter = "topt_get_skippable_tests" -> "topt_free_skippable_tests"
      [] getter = "topt_get_test_management_tests" -> "topt_free_test_management_tests"
      [] getter = "topt_debug_mock_tracer_get_finished_spans" ->
            "topt_debug_mock_tracer_free_mock_span_array"
      [] getter = "topt_debug_mock_tracer_get_open_spans" ->
            "topt_debug_mock_tracer_free_mock_span_array"

\* C3: each settings or mock-tracer read obtains one foreign array and
\* invokes the matching foreign free for it exactly once, after the last
\* read through the array and before it returns.
C3_FreeExactlyOnce ==
    last.name \in CatalogReads \cup SpanReads =>
        LET ev == last.events
            n == Len(ev)
        IN /\ last.outcome = "returned"
           /\ n >= 2
           /\ ev[1].ev = "call"
           /\ ev[n] = [ev |-> "call", fn |-> MatchingFree(ev[1].fn)]
           /\ \A i \in 2..(n - 1) : ev[i].ev = "read"

\* C7: a foreign array with length 0 or with a null data pointer, also a
\* null pointer with a length that is not 0, decodes to an empty collection,
\* without failure and without a read through the pointer; so do the tag
\* arrays of a mock span.
C7_NullOrEmptyArrayIsEmpty ==
    /\ (last.name \in CatalogReads \cup SpanReads /\ (IsNull(foreign) \/ foreign.len = 0)) =>
          /\ last.outcome = "returned"
          /\ last.result = <<>>
          /\ last.reads = 0
    /\ (last.name \in SpanReads /\ ~IsNull(foreign)) =>
          /\ last.outcome = "returned"
          /\ \A i \in 1..foreign.len :
                LET mock == foreign.data[i]
                IN /\ (IsNull(mock.string_tags) \/ mock.string_tags.len = 0) =>
                         last.result[i].string_tags = EmptyMap
                   /\ (IsNull(mock.number_tags) \/ mock.number_tags.len = 0) =>
                         last.result[i].number_tags = EmptyMap

\* the catalog element e is found in the decoded map r under its names,
\* a null name being the empty string
FoundDecoded(kind, e, r) ==
    CASE kind = "known" ->
            LET m == CheckedStr(e.module_name)
                su == CheckedStr(e.suite_name)
            IN /\ m \in DOMAIN r
               /\ su \in DOMAIN r[m]
               /\ \E j \in 1..Len(r[m][su]) : r[m][su][j] = CheckedStr(e.test_name)
      [] kind = "skippable" ->
            LET su == CheckedStr(e.suite_name)
                t == CheckedStr(e.test_name)
            IN /\ su \in DOMAIN r
               /\ t \in DOMAIN r[su]
               /\ \E j \in 1..Len(r[su][t]) :
                     r[su][t][j] =
                        [suite_name |-> su, test_name |-> t,
                         parameters |-> CheckedStr(e.parameters),
                         custom_configurations_json |->
                             CheckedStr(e.custom_configurations_json)]
      [] kind = "test_management" ->
            LET m == CheckedStr(e.module_name)
                su == CheckedStr(e.suite_name)
                t == CheckedStr(e.test_name)
            IN /\ m \in DOMAIN r
               /\ su \in DOMAIN r[m]
               /\ t \in DOMAIN r[m][su]
               /\ r[m][su][t].module_name = m
               /\ r[m][su][t].suite_name = su
               /\ r[m][su][t].test_name = t

\* C8: a null string field of a decoded foreign record decodes to the empty
\* string and the decode does not fail.
C8_NullStringIsEmpty ==
    /\ (last.name \in CatalogReads /\ ~IsNull(foreign)) =>
          \A i \in 1..foreign.len :
              NullPtr \in StrPtrs(foreign.kind, foreign.data[i]) =>
                  /\ last.outcome = "returned"
                  /\ FoundDecoded(foreign.kind, foreign.data[i], last.result)
    /\ (last.name \in SpanReads /\ ~IsNull(foreign)) =>
          \A i \in 1..foreign.len :
              LET mock == foreign.data[i]
              IN /\ last.outcome = "returned"
                 /\ mock.operation_name = NullPtr => last.result[i].operation_name = sEmpty
                 /\ ~IsNull(mock.string_tags) =>
                       \A j \in 1..mock.string_tags.len :
                           LET pair == mock.string_tags.data[j]
                           IN /\ pair.key = NullPtr =>
                                    sEmpty \in DOMAIN last.result[i].string_tags
                              /\ (pair.key = NullPtr /\ pair.value = NullPtr) =>
                                    last.result[i].string_tags[sEmpty] = sEmpty
                 /\ ~IsNull(mock.number_tags) =>
                       \A j \in 1..mock.number_tags.len :
                           mock.number_tags.data[j].key = NullPtr =>
                               sEmpty \in DOMAIN last.result[i].number_tags

\* every record of the foreign array has its name pointers set
AllNamed == ~IsNull(foreign) /\ \A i \in 1..foreign.len :
                NullPtr \notin StrPtrs(foreign.kind, foreign.data[i])

\* the (module, suite, test) key of a test-management record
ManagementKey(e) ==
    <<CStrToString(e.module_name), CStrToString(e.suite_name), CStrToString(e.test_name)>>

\* C9: get_test_management_tests holds, for each (module, suite, test) key
\* of the foreign array, the flags of the first record with that key in
\* array order.
C9_FirstRecordWins ==
    (last.name = "get_test_management_tests" /\ last.outcome = "returned" /\ AllNamed) =>
        \A i \in 1..foreign.len :
            LET k == ManagementKey(foreign.data[i])
                first == CHOOSE j \in 1..i :
                            /\ ManagementKey(foreign.data[j]) = k
                            /\ \A h \in 1..(j - 1) : ManagementKey(foreign.data[h]) # k
                e == foreign.data[first]
            IN /\ k[1] \in DOMAIN last.result
               /\ k[2] \in DOMAIN last.result[k[1]]
               /\ k[3] \in DOMAIN last.result[k[1]][k[2]]
               /\ last.result[k[1]][k[2]][k[3]] =
                     [module_name |-> k[1], suite_name |-> k[2], test_name |-> k[3],
                      quarantined |-> e.quarantined # 0,
                      disabled |-> e.disabled # 0,
                      attempt_to_fix |-> e.attempt_to_fix # 0]

\* two records with the same key and different flags were decoded
C9_Witness ==
    /\ last.name = "get_test_management_tests"
    /\ last.outcome = "returned"
    /\ AllNamed
    /\ foreign.len >= 2
    /\ ManagementKey(foreign.data[1]) = ManagementKey(foreign.data[2])
    /\ (foreign.data[1].quarantined # 0) # (foreign.data[2].quarantined # 0)

\* the skippable record of a foreign element whose pointers are all set
SkippableOf(e) ==
    [suite_name |-> CStrToString(e.suite_name),
     test_name |-> CStrToString(e.test_name),
     parameters |-> CStrToString(e.parameters),
     custom_configurations_json |-> CStrToString(e.custom_configurations_json)]

\* C10 as stated: the inner key of the map of get_skippable_tests is the
\* suite name of the records it holds.
C10_InnerKeyIsSuiteName ==
    (last.name = "get_skippable_tests" /\ last.outcome = "returned" /\ AllNamed) =>
        \A k \in DOMAIN last.result : \A j \in DOMAIN last.result[k] :
            \A n \in 1..Len(last.result[k][j]) : last.result[k][j][n].suite_name = j

\* C10, amended: get_skippable_tests returns a nested map whose outer key
\* is the suite name and whose inner key is the test name, each inner entry
\* holding the skippable test records of that suite name and test name, in
\* array order.
C10_KeyedBySuiteThenTest ==
    (last.name = "get_skippable_tests" /\ last.outcome = "returned") =>
        /\ \A k \in DOMAIN last.result : \A j \in DOMAIN last.result[k] :
              /\ last.result[k][j] # <<>>
              /\ \A n \in 1..Len(last.result[k][j]) :
                    /\ last.result[k][j][n].suite_name = k
                    /\ last.result[k][j][n].test_name = j
        /\ AllNamed =>
              LET dec == [i \in 1..foreign.len |-> SkippableOf(foreign.data[i])]
              IN /\ DOMAIN last.result = { dec[i].suite_name : i \in 1..foreign.len }
                 /\ \A k \in DOMAIN last.result :
                       /\ DOMAIN last.result[k] =
                             { dec[i].test_name : i \in { h \in 1..foreign.len :
                                                           dec[h].suite_name = k } }
                       /\ \A j \in DOMAIN last.result[k] :
                             LET Here(r) == r.suite_name = k /\ r.test_name = j
                             IN last.result[k][j] = SelectSeq(dec, Here)

\* two records of one suite and test were decoded, and the suite name is
\* not the test name of every record
C10_Witness ==
    /\ last.name = "get_skippable_tests"
    /\ last.outcome = "returned"
    /\ AllNamed
    /\ \E k \in DOMAIN last.result : \E j \in DOMAIN last.result[k] :
          Len(last.result[k][j]) = 2
    /\ \E k \in DOMAIN last.result : \E j \in DOMAIN last.result[k] : j # k

----------------------------------------------------------------------------
(* Properties of the operations that encode host strings *)

MarshalOps == {"set_coverage_data", "set_benchmark_string_data", "set_benchmark_number_data"}

BenchmarkOps == {"set_benchmark_string_data", "set_benchmark_number_data"}

\* the operations that are given host strings
StringOps ==
    {"init_with_values", "create_module", "create_test_suite", "create_test", "span_create",
     "set_string_tag", "set_number_tag", "set_error_info", "set_test_source",
     "close_with_skip_reason"} \cup MarshalOps

\* C4: set_coverage_data, set_benchmark_string_data and
\* set_benchmark_number_data release every buffer they allocated before
\* control leaves them, on the failure path of a rejected string too.
C4_BuffersReleased ==
    last.name \in MarshalOps =>
        /\ last.array_frees = last.array_allocs
        /\ last.cstrings_dropped = last.cstrings

\* a string argument of the last call holds an embedded null byte
NulArgument ==
    /\ last.name \in StringOps
    /\ \E i \in DOMAIN last.strs : \E j \in DOMAIN last.strs[i] : last.strs[i][j] = NUL

\* C5 as stated: an operation given a string with an embedded null byte
\* fails before it issues any foreign call.
C5_NulFailsBeforeAnyCall ==
    NulArgument => (last.outcome = "panicked" /\ calls = <<>>)

\* the last call is a benchmark operation on an empty map: measure_type is
\* its only string
EmptyMapCall == last.name \in BenchmarkOps /\ Len(last.strs) = 1

\* C5, amended: an operation given a string with an embedded null byte
\* fails with the encoding error before it issues any call of the library
\* API, the start of the Go runtime on Windows being the one foreign call
\* that init_with_values makes before it encodes its strings; the benchmark
\* operations on an empty map return true without encoding measure_type.
C5_NulFailsBeforeApiCall ==
    /\ (NulArgument /\ ~EmptyMapCall) =>
          /\ last.outcome = "panicked"
          /\ \A i \in DOMAIN calls : calls[i].fn = "_rt0_amd64_windows_lib"
          /\ last.name # "init_with_values" => calls = <<>>
    /\ (NulArgument /\ EmptyMapCall) =>
          /\ last.outcome = "returned"
          /\ last.ret
          /\ calls = <<>>

\* a benchmark operation on a map that is not empty has filled its record
\* array and then rejected measure_type
C5_Witness ==
    /\ last.name = "set_benchmark_string_data"
    /\ Len(last.strs) > 1
    /\ HasNul(last.strs[1])
    /\ \A i \in 2..Len(last.strs) : ~HasNul(last.strs[i])
    /\ last.outcome = "panicked"

----------------------------------------------------------------------------
(* Properties of the empty payloads and of the test close *)

\* C11: the benchmark operations on an empty map return true for every
\* measure type, allocate no buffer and issue no foreign call.
C11_EmptyMapShortCircuits ==
    EmptyMapCall =>
        /\ last.outcome = "returned"
        /\ last.ret
        /\ calls = <<>>
        /\ last.array_allocs = 0
        /\ last.cstrings = 0

\* both benchmark operations are covered: here the string one, on an empty
\* map and a measure type that CString::new would reject
C11_Witness ==
    /\ EmptyMapCall
    /\ last.name = "set_benchmark_string_data"
    /\ HasNul(last.strs[1])

\* the last call is a marshaling operation on a payload of zero elements
EmptyPayload ==
    \/ EmptyMapCall
    \/ last.name = "set_coverage_data" /\ last.strs = <<>>

\* C12: a marshaling operation on a payload of zero elements allocates no
\* buffer and completes as trivial success.
C12_EmptyPayloadSkipsAllocation ==
    EmptyPayload =>
        /\ last.outcome = "returned"
        /\ last.array_allocs = 0

\* C13: close_with_skip_reason("") issues the foreign close that
\* close(Skip) issues, with status Skip, a null skip reason and the current
\* time as finish time, and returns the conversion of its result.
C13_EmptyReasonIsPlainSkip ==
    (last.name = "close_with_skip_reason" /\ last.strs = <<sEmpty>>) =>
        /\ last.outcome = "returned"
        /\ calls = << [fn |-> "topt_test_close", id |-> test.test_id, status |-> 2,
                       finish_time |-> last.now, skip_reason |-> NullPtr] >>
        /\ last.ret = (last.reply # 0)

\* an empty reason was given and the foreign close rejected
C13_Witness ==
    /\ last.name = "close_with_skip_reason"
    /\ last.strs = <<sEmpty>>
    /\ last.reply = 0

\* the last call is close_with_skip_reason with a reason that is not empty
NonEmptyReason ==
    /\ last.name = "close_with_skip_reason"
    /\ last.strs # <<sEmpty>>

\* C14 as stated: every reason that is not empty is attached, unmodified,
\* to exactly one foreign test-close of status Skip.
C14_ReasonAttached ==
    NonEmptyReason =>
        /\ Len(calls) = 1
        /\ calls[1].fn = "topt_test_close"
        /\ calls[1].status = 2
        /\ calls[1].skip_reason = last.strs[1] \o <<NUL>>

\* C14, amended: a reason that is not empty and holds no null byte is
\* attached, unmodified, to exactly one foreign test-close of status Skip;
\* a reason with an embedded null byte fails with the encoding error and
\* no foreign call.
C14_NulFreeReasonAttached ==
    /\ (NonEmptyReason /\ ~HasNul(last.strs[1])) =>
          /\ Len(calls) = 1
          /\ calls[1].fn = "topt_test_close"
          /\ calls[1].status = 2
          /\ calls[1].skip_reason = last.strs[1] \o <<NUL>>
    /\ (NonEmptyReason /\ HasNul(last.strs[1])) =>
          /\ last.outcome = "panicked"
          /\ calls = <<>>

\* a reason without a null byte was attached
C14_Witness ==
    /\ NonEmptyReason
    /\ ~HasNul(last.strs[1])
    /\ last.outcome = "returned"

----------------------------------------------------------------------------
(* Properties of the lifecycle *)

InitializeOps == {"init_with_values", "initialize"}

\* C15: the lifecycle state is one of uninitialized, initialized and shut
\* down; it changes only to initialized, from uninitialized or shut down, on
\* a successful initialize, and from initialized to shut down on a shutdown;
\* a successful initialize in the shut-down state starts a fresh cycle.
C15_LifecycleTransitions ==
    [][ /\ lifecycle' \in Lifecycles
        /\ lifecycle' # lifecycle =>
              \/ /\ lifecycle \in {"uninitialized", "shut_down"}
                 /\ lifecycle' = "initialized"
                 /\ last'.name \in InitializeOps
                 /\ last'.reply # 0
              \/ /\ lifecycle = "initialized"
                 /\ lifecycle' = "shut_down"
                 /\ last'.name \in {"shutdown", "session_close"}
        /\ (/\ lifecycle = "shut_down"
            /\ last' # last
            /\ last'.name \in InitializeOps
            /\ last'.outcome = "returned"
            /\ last'.reply # 0) => lifecycle' = "initialized" ]_vars

\* the facade has initialized a library that was shut down
C15_Witness ==
    /\ last.name = "initialize"
    /\ last.before = "shut_down"
    /\ lifecycle = "initialized"

\* the foreign functions of the lifecycle itself
LifecycleFns == {"topt_initialize", "topt_shutdown", "_rt0_amd64_windows_lib"}

\* the lifecycle state in which the foreign calls of the last API call that
\* are not lifecycle calls were issued: TestSession::close issues its
\* session-close before it shuts down, init_with_values creates its session
\* after it initialized
LifecycleAtCall ==
    IF last.name = "session_close" THEN last.before ELSE lifecycle

C17_SessionAfterInitialize ==
    (last.name = "init_with_values" /\ last.outcome = "returned") =>
        /\ Cardinality(CallsOf("topt_initialize")) = 1
        /\ IF last.reply = 0
           THEN /\ session.session_id = 0
                /\ CallsOf("topt_session_create") = {}
           ELSE /\ Cardinality(CallsOf("topt_session_create")) = 1
                /\ session.session_id = last.created

\* an initialize that the foreign side rejected has replaced a session
\* handle
C17_Witness ==
    /\ last.name = "init_with_values"
    /\ last.outcome = "returned"
    /\ last.reply = 0
    /\ session.session_id = 0
    /\ module # NoHandle
    /\ module.session_id # 0

\* C20: TestSession::close returns the answer of the foreign session-close
\* as a boolean; () is the empty tuple, a boolean result a tuple of one.
C20_CloseReturnsAnswer ==
    last.name = "session_close" => last.ret = << last.reply # 0 >>

\* C18: once the library is shut down, a further shutdown and every later
\* settings or mock-tracer read return a result without a crash and leave
\* the library shut down.
C18_PostShutdownTolerated ==
    /\ (last.name = "shutdown" /\ last.before = "shut_down") =>
          /\ last.outcome = "returned"
          /\ lifecycle = "shut_down"
    /\ (last.name \in CatalogReads \cup SpanReads /\ lifecycle = "shut_down") =>
          last.outcome = "returned"

----------------------------------------------------------------------------
(* Properties of the boolean results *)

\* the operations that return the foreign result as a boolean
BoolOps ==
    {"set_string_tag", "set_number_tag", "set_error_info", "set_test_source", "close",
     "test_close", "close_with_skip_reason"} \cup BenchmarkOps

\* the last call is such an operation on a module, suite, test or span, a
\* benchmark operation on an empty map excepted
BoolCall ==
    /\ last.name \in BoolOps
    /\ last.kind \in {"module", "suite", "test", "span"}
    /\ ~EmptyMapCall

\* exactly one foreign call was issued and its one-byte result returned as
\* a boolean
OneCallAnswered ==
    /\ last.outcome = "returned"
    /\ Len(calls) = 1
    /\ last.ret = (last.reply # 0)

\* C19 as stated: each such operation issues exactly one foreign call and
\* returns true if and only if the result of that call is not zero.
C19_OneCallResultReturned ==
    BoolCall => OneCallAnswered

\* C19, amended: each such operation whose string arguments hold no
\* embedded null byte issues exactly one foreign call and returns true if
\* and only if the result of that call is not zero, without retry and
\* without panic; with an embedded null byte it fails with the encoding
\* error and issues no call.
C19_EncodedCallResultReturned ==
    /\ (BoolCall /\ ~NulArgument) => OneCallAnswered
    /\ (BoolCall /\ NulArgument) => (last.outcome = "panicked" /\ calls = <<>>)

\* the foreign side rejected an operation on a span
C19_Witness ==
    /\ BoolCall
    /\ last.kind = "span"
    /\ last.outcome = "returned"
    /\ last.reply = 0
    /\ ~last.ret

RECURSIVE SumLens(_, _)
\* the sum of the lengths of the lists f[k], k in S
SumLens(f, S) ==
    IF S = {} THEN 0
    ELSE LET k == CHOOSE x \in S : TRUE IN Len(f[k]) + SumLens(f, S \ {k})

RECURSIVE TotalNames(_, _)
\* the number of test names held by the modules in S of the known-tests map
TotalNames(result, S) ==
    IF S = {} THEN 0
    ELSE LET m == CHOOSE x \in S : TRUE
         IN SumLens(result[m], DOMAIN result[m]) + TotalNames(result, S \ {m})

\* the test names, in array order, of the records of module m and suite s
NamesOf(m, s) ==
    LET InGroup(e) == CStrToString(e.module_name) = m /\ CStrToString(e.suite_name) = s
        group == SelectSeq(foreign.data, InGroup)
    IN [j \in 1..Len(group) |-> CStrToString(group[j].test_name)]

\* C26: get_known_tests groups the foreign records by module name and then
\* suite name and appends each record's test name to the list of its group:
\* the lists hold as many names as the array has records, duplicates
\* included, and each list holds the names of its group in array order.
C26_KnownTestsGrouped ==
    (last.name = "get_known_tests" /\ last.outcome = "returned") =>
        /\ TotalNames(last.result, DOMAIN last.result) = foreign.len
        /\ AllNamed =>
              /\ DOMAIN last.result =
                    { CStrToString(foreign.data[i].module_name) : i \in 1..foreign.len }
              /\ \A m \in DOMAIN last.result :
                    /\ DOMAIN last.result[m] =
                          { CStrToString(foreign.data[i].suite_name) :
                              i \in { j \in 1..foreign.len :
                                        CStrToString(foreign.data[j].module_name) = m } }
                    /\ \A s \in DOMAIN last.result[m] : last.result[m][s] = NamesOf(m, s)

\* the same record twice: its test name is listed twice
C26_Witness ==
    /\ last.name = "get_known_tests"
    /\ last.outcome = "returned"
    /\ AllNamed
    /\ foreign.len = 2
    /\ foreign.data[1] = foreign.data[2]
    /\ \E m \in DOMAIN last.result : \E s \in DOMAIN last.result[m] :
          Len(last.result[m][s]) = 2 /\ last.result[m][s][1] = last.result[m][s][2]

\* the index of the last pair of the tag array whose key decodes as pair j's
LastOfKey(array, j) ==
    CHOOSE h \in j..array.len :
        /\ CheckedStr(array.data[h].key) = CheckedStr(array.data[j].key)
        /\ \A g \in (h + 1)..array.len :
              CheckedStr(array.data[g].key) # CheckedStr(array.data[j].key)

\* C27: when a decoded tag array of a mock span holds several pairs with
\* the same key, the host map holds one entry for that key and its value is
\* that of the last such pair in array order.
C27_LastPairWins ==
    (last.name \in SpanReads /\ last.outcome = "returned" /\ ~IsNull(foreign)) =>
        \A i \in 1..foreign.len :
            LET mock == foreign.data[i]
                decoded == last.result[i]
            IN /\ ~IsNull(mock.string_tags) =>
                     /\ DOMAIN decoded.string_tags =
                           { CheckedStr(mock.string_tags.data[j].key) :
                               j \in 1..mock.string_tags.len }
                     /\ \A j \in 1..mock.string_tags.len :
                           decoded.string_tags[CheckedStr(mock.string_tags.data[j].key)] =
                              CheckedStr(mock.string_tags.data[
                                  LastOfKey(mock.string_tags, j)].value)
               /\ ~IsNull(mock.number_tags) =>
                     /\ DOMAIN decoded.number_tags =
                           { CheckedStr(mock.number_tags.data[j].key) :
                               j \in 1..mock.number_tags.len }
                     /\ \A j \in 1..mock.number_tags.len :
                           decoded.number_tags[CheckedStr(mock.number_tags.data[j].key)] =
                              mock.number_tags.data[LastOfKey(mock.number_tags, j)].value

\* a span whose string tags and number tags both repeat a key with
\* different values was decoded
C27_Witness ==
    /\ last.name \in SpanReads
    /\ last.outcome = "returned"
    /\ ~IsNull(foreign)
    /\ \E i \in 1..foreign.len :
          /\ foreign.data[i].string_tags = kvTwice
          /\ foreign.data[i].number_tags = knTwice
          /\ last.result[i].string_tags = Put(EmptyMap, sA, sB)
          /\ last.result[i].number_tags = Put(EmptyMap, sA, 2)

----------------------------------------------------------------------------
(* Properties of the mock-tracer round trip *)

\* a SystemTime is not later than another
TimeLeq(a, b) == a.secs < b.secs \/ (a.secs = b.secs /\ a.nanos <= b.nanos)

\* a topt_UnixTime whose nsec is below a second is not later than another
UnixTimeLeq(a, b) == a.sec < b.sec \/ (a.sec = b.sec /\ a.nsec <= b.nsec)

\* the host initialized with the mock tracer, holds the session and a span
\* it created under the session, has closed the span, which is the one span
\* the tracer holds, and has just read the finished spans
RoundTrip ==
    /\ last.name = "get_finished_spans"
    /\ last.outcome = "returned"
    /\ mockTracer.on
    /\ session # NoHandle /\ session.session_id # 0
    /\ span # NoHandle /\ span.span_id # 0
    /\ span.parent_id = session.session_id
    /\ mockTracer.open = <<>>
    /\ Len(mockTracer.finished) = 1
    /\ mockTracer.finished[1].span_id = span.span_id

\* the one record read is the span the host created
RoundTripRecord ==
    /\ Len(last.result) = 1
    /\ last.result[1].operation_name = origin.span.strs[1]
    /\ last.result[1].parent_span_id = session.session_id

\* C21 as stated: after initialize with the mock tracer, a session, one
\* span under the session and its close, get_finished_spans returns one
\* record with the span's operation name, the session id as parent id and a
\* finish_time that is not earlier than its start_time.
C21_RoundTripOrdered ==
    RoundTrip =>
        /\ RoundTripRecord
        /\ TimeLeq(last.result[1].start_time, last.result[1].finish_time)

\* C21, amended: the same, the finish_time being not earlier than the
\* start_time when the clock reading that close took is not earlier than
\* the one that create took.
C21_RoundTrip ==
    RoundTrip =>
        /\ RoundTripRecord
        /\ UnixTimeLeq(origin.span.now, mockTracer.finished[1].finish_time) =>
              TimeLeq(last.result[1].start_time, last.result[1].finish_time)

\* the round trip of a span closed a second after it was created
C21_Witness ==
    /\ RoundTrip
    /\ origin.span.strs[1] = sA
    /\ last.result[1].operation_name = sA
    /\ last.result[1].start_time = [secs |-> 0, nanos |-> 7]
    /\ last.result[1].finish_time = [secs |-> 1, nanos |-> 5]

\* the host holds a span that the mock tracer recorded and has just read
\* the tracer
SpanReadBack ==
    /\ last.name \in SpanReads
    /\ last.outcome = "returned"
    /\ mockTracer.on
    /\ span # NoHandle /\ span.span_id # 0

\* C28: a string without an embedded null byte that is encoded to a
\* null-terminated buffer for an outbound call (the operation name of
\* Span::create) and decoded from that buffer by the inbound string decoder
\* (the operation name of the span read back) is the same string again.
C28_EncodeThenDecode ==
    SpanReadBack =>
        \A i \in DOMAIN last.result :
            last.result[i].span_id = span.span_id =>
                /\ ~HasNul(origin.span.strs[1])
                /\ last.result[i].operation_name = origin.span.strs[1]
                /\ CStrToString(CStringNew(origin.span.strs[1]).buf) = origin.span.strs[1]

\* a name of one two-byte character was read back
C28_Witness ==
    /\ SpanReadBack
    /\ origin.span.strs[1] = sUtf8
    /\ \E i \in DOMAIN last.result :
          /\ last.result[i].span_id = span.span_id
          /\ last.result[i].operation_name = sUtf8

----------------------------------------------------------------------------
(* Properties of the boolean decoder *)

\* the byte of the settings response behind the flag n
SettingsByte(response, n) ==
    CASE n = "early_flake_detection" -> response.early_flake_detection.enabled
      [] n = "test_management" -> response.test_management.enabled
      [] OTHER -> response[n]

\* the flag n of the Settings returned
SettingsFlag(result, n) ==
    CASE n = "early_flake_detection" -> result.early_flake_detection.enabled
      [] n = "test_management" -> result.test_management.enabled
      [] OTHER -> result[n]

\* the record that get_test_management_tests returned for the element e
ManagedTest(e) ==
    last.result[CStrToString(e.module_name)][CStrToString(e.suite_name)]
               [CStrToString(e.test_name)]

\* C29: the boolean decoder is total, maps the byte 0 to false and each of
\* the bytes 1..255 to true, and every boolean returned from a foreign call
\* (tag, error, source, close, benchmark, initialize, shutdown, reset, the
\* settings flags, the test-management flags) is that rule applied to the
\* byte the foreign side answered.
C29_OneRule ==
    /\ \A b \in Bytes : Bool_to_bool(b) \in BOOLEAN /\ Bool_to_bool(b) = (b # 0)
    /\ "reply" \in DOMAIN last /\ "ret" \in DOMAIN last => last.ret = (last.reply # 0)
    /\ last.name = "get_settings" =>
          \A n \in SettingsFlags :
              SettingsFlag(last.result, n) = (SettingsByte(last.response, n) # 0)
    /\ last.name = "get_test_management_tests" /\ last.outcome = "returned" =>
          \A i \in 1..foreign.len :
              /\ ManagedTest(foreign.data[i]).quarantined = (foreign.data[i].quarantined # 0)
              /\ ManagedTest(foreign.data[i]).disabled = (foreign.data[i].disabled # 0)
              /\ ManagedTest(foreign.data[i]).attempt_to_fix =
                    (foreign.data[i].attempt_to_fix # 0)

\* reset answered with the byte 2 and returned true
C29_Witness ==
    /\ last.name = "reset"
    /\ last.reply = 2
    /\ last.ret = TRUE

\* a settings flag of the byte 2 was returned as true
C29_WitnessSettings ==
    /\ last.name = "get_settings"
    /\ last.response.itr_enabled = 2
    /\ last.result.itr_enabled = TRUE

\* a test-management flag of the byte 2 was returned as true
C29_WitnessManaged ==
    /\ last.name = "get_test_management_tests"
    /\ last.outcome = "returned"
    /\ foreign.data[1].disabled = 2
    /\ ManagedTest(foreign.data[1]).disabled = TRUE

----------------------------------------------------------------------------
(* Properties of the record arrays *)

\* a marshaling operation has just handed a record array to the foreign side
ArrayHandedOver ==
    /\ last.name \in MarshalOps
    /\ last.outcome = "returned"
    /\ calls # <<>>

\* the positions of the events of kind ev
EventsAt(ev) == { k \in DOMAIN last.events : last.events[k].ev = ev }

CallAt == CHOOSE k \in EventsAt("call") : TRUE

\* the position of the write to the slot s
WritesOf(s) == { k \in EventsAt("write") : last.events[k].slot = s }

\* the record array and its length field in the foreign call
ArrayOfCall ==
    IF last.name = "set_coverage_data"
    THEN [data |-> calls[1].files.data, len |-> calls[1].files_len]
    ELSE [data |-> calls[1].data, len |-> calls[1].len]

\* the strings that the record r of the array points to
PointedBy(r) ==
    CASE last.name = "set_coverage_data" -> <<r.filename>>
      [] last.name = "set_benchmark_string_data" -> <<r.key, r.value>>
      [] last.name = "set_benchmark_number_data" -> <<r.key>>

\* the buffer b exists from before the position k until after the call
AliveFromUntilCall(b, k) ==
    /\ \E c \in EventsAt("cstring") : c < k /\ last.events[c].buf = b
    /\ \A d \in EventsAt("drop") : last.events[d].buf = b => d > CallAt

\* C30: for a non-empty benchmark map of n entries and a coverage list of n
\* files, the record array handed to the foreign call has the length field
\* n, each slot 0..n-1 is written exactly once before the call with one
\* distinct entry of the input (coverage slots with a null bitmap and a
\* bitmap length of 0), and every string pointer stored in it refers to a
\* buffer that is alive when the call is issued and until it returns.
C30_RecordArray ==
    ArrayHandedOver =>
        LET n == Len(last.entries)
            array == ArrayOfCall
        IN /\ array.len = n
           /\ Len(array.data) = n
           /\ Cardinality(EventsAt("call")) = 1
           /\ \A k \in EventsAt("write") : last.events[k].slot \in 0..(n - 1)
           /\ \A k \in EventsAt("alloc") : k < CallAt
           /\ \A k \in EventsAt("dealloc") : k > CallAt
           /\ \A s \in 0..(n - 1) :
                 /\ Cardinality(WritesOf(s)) = 1
                 /\ \A k \in WritesOf(s) :
                       /\ k < CallAt
                       /\ \A j \in DOMAIN last.events[k].ptrs :
                             /\ AliveFromUntilCall(last.events[k].ptrs[j], k)
                             /\ \E c \in EventsAt("cstring") :
                                   /\ last.events[c].buf = last.events[k].ptrs[j]
                                   /\ last.events[c].bytes = PointedBy(array.data[s + 1])[j]
                 /\ PointedBy(array.data[s + 1]) = Encoded(last.entries[s + 1])
                 /\ last.name = "set_coverage_data" =>
                       /\ array.data[s + 1].bitmap = NullPtr
                       /\ array.data[s + 1].bitmap_len = 0
           /\ last.name # "set_coverage_data" =>
                 \A s, t \in 1..n : s # t => last.entries[s][1] # last.entries[t][1]

\* a benchmark map of two entries was handed over
C30_Witness ==
    /\ ArrayHandedOver
    /\ last.name = "set_benchmark_string_data"
    /\ Len(last.entries) = 2
    /\ calls[1].len = 2

\* a coverage list of two files was handed over
C30_WitnessCoverage ==
    /\ ArrayHandedOver
    /\ last.name = "set_coverage_data"
    /\ Len(last.entries) = 2
    /\ calls[1].files_len = 2

----------------------------------------------------------------------------
(* Properties of the cycles *)

\* a cycle has just ended: the initialized library was shut down
CycleEnded ==
    /\ last.name = "shutdown"
    /\ last.before = "initialized"
    /\ lifecycle = "shut_down"

\* the allocations that are live: the record arrays that no dealloc
\* released, and the foreign array of a read that no free call followed
LiveAllocations ==
    leaked + (IF last.name \in CatalogReads \cup SpanReads
                 /\ Cardinality({ k \in DOMAIN last.events : IsCall(last.events[k]) }) < 2
              THEN 1 ELSE 0)

\* C22: after any number of initialize -> shutdown cycles, with any entity,
\* settings and mock-tracer operations in between, the number of live
\* allocations made by or handed to the binding is zero at the end of each
\* cycle.
C22_NoLiveAllocations == CycleEnded => LiveAllocations = 0

----------------------------------------------------------------------------
(* Properties of the two runs *)

\* the foreign calls c and d are the same, but for the use_mock_tracer byte
\* of the options of topt_initialize: 1 in c, 0 in d
SameButFlag(c, d) ==
    IF c.fn = "topt_initialize"
    THEN /\ d.fn = "topt_initialize"
         /\ c.use_mock_tracer = 1
         /\ d.use_mock_tracer = 0
         /\ [c EXCEPT !.use_mock_tracer = 0] = d
    ELSE c = d

SameCalls(cs, ds) ==
    /\ Len(cs) = Len(ds)
    /\ \A i \in DOMAIN cs : SameButFlag(cs[i], ds[i])

\* C25: two runs that issue the same sequence of API calls with the same
\* arguments and differ only in use_mock_tracer issue the same sequence of
\* foreign calls with the same arguments, except for the use_mock_tracer
\* byte of the initialize options (1 when true, 0 when false).
C25_SameForeignCalls ==
    \A i \in DOMAIN replay.reissued : SameCalls(replay.issued[i], replay.reissued[i])

\* both runs initialized with a working directory, created a session and
\* a span
C25_Witness ==
    /\ replay.run = 2
    /\ Len(replay.reissued) = 2
    /\ Len(replay.issued[1]) = 2
    /\ replay.issued[1][1].fn = "topt_initialize"
    /\ replay.issued[1][1].use_mock_tracer = 1
    /\ replay.issued[1][1].working_directory # NullPtr
    /\ replay.reissued[1][1].use_mock_tracer = 0
    /\ Len(replay.issued[2]) = 1
    /\ Len(replay.reissued[2]) = 1
    /\ replay.issued[2][1].fn = "topt_span_create"
    /\ replay.reissued[2][1].fn = "topt_span_create"

----------------------------------------------------------------------------
(* Properties of the operations after close *)

\* the ids of the entities that the tracer holds as open, and as finished
OpenIds == { mockTracer.open[i].span_id : i \in DOMAIN mockTracer.open }
FinishedIds == { mockTracer.finished[i].span_id : i \in DOMAIN mockTracer.finished }

\* the host holds a handle of the kind whose entity has been closed
ClosedHandle(kind) ==
    /\ Handle(kind) # NoHandle
    /\ OwnId(Handle(kind)) \in FinishedIds

\* this step is an operation on a test or span handle whose entity has been
\* closed
OperationAfterClose ==
    /\ "kind" \in DOMAIN last'
    /\ last'.kind \in {"test", "span"}
    /\ ClosedHandle(last'.kind)

\* the step leaves every finished entity as it is, and opens none of them
StaysClosed ==
    /\ \A i \in DOMAIN mockTracer.finished :
          /\ i \in DOMAIN mockTracer'.finished
          /\ mockTracer'.finished[i] = mockTracer.finished[i]
    /\ \A i \in DOMAIN mockTracer'.open : mockTracer'.open[i].span_id \notin FinishedIds

\* an entity is finished only after it was open: created, then closed
CreatedThenClosed ==
    \A i \in DOMAIN mockTracer'.finished :
        \/ i \in DOMAIN mockTracer.finished
        \/ mockTracer'.finished[i].span_id \in OpenIds

\* C23 as stated: every test and every span goes through created -> (tag /
\* error / source mutations) -> closed, and any operation invoked on a
\* handle after its close, a second close included, returns a result to the
\* caller without crashing and leaves the entity closed.
C23_AfterCloseTolerated ==
    [][/\ CreatedThenClosed
       /\ StaysClosed
       /\ OperationAfterClose => last'.outcome = "returned"]_vars

\* C23, amended: the same, for the operations whose strings hold no embedded
\* null byte.
C23_AfterCloseNulFree ==
    [][/\ CreatedThenClosed
       /\ StaysClosed
       /\ (OperationAfterClose /\ \A i \in DOMAIN last'.strs : ~HasNul(last'.strs[i]))
             => last'.outcome = "returned"]_vars

\* a tag was set on a closed span, and answered with false
C23_Witness ==
    /\ last.name = "set_string_tag"
    /\ last.kind = "span"
    /\ ClosedHandle("span")
    /\ last.outcome = "returned"
    /\ last.ret = FALSE
    /\ span.span_id \notin OpenIds

\* a closed test was closed again
C23_WitnessSecondClose ==
    /\ last.name = "test_close"
    /\ ClosedHandle("test")
    /\ last.outcome = "returned"
    /\ \E i \in DOMAIN mockTracer.finished :
          /\ mockTracer.finished[i].span_id = test.test_id
          /\ mockTracer.finished[i].finish_time # last.now

----------------------------------------------------------------------------
(* Properties of the threads *)

\* the threads that are inside a call
Running == { t \in 1..MaxThreads : threads.of[t].pc # "idle" }

\* the records that the thread t has written so far
WrittenBy(t) ==
    [k \in 1..threads.of[t].i |->
        [key |-> CStringNew(threads.of[t].entries[k][1]).buf,
         value |-> CStringNew(threads.of[t].entries[k][2]).buf]]

\* C24: under every interleaving of operations issued by several host
\* threads on copies of the same handle, each temporary marshaling buffer
\* is written, passed to the foreign call and released only by the call
\* that allocated it, no operation changes an id field of a handle, and
\* no interleaving blocks a call inside the binding.
C24_BuffersOwned ==
    /\ \A b \in DOMAIN threads.heap :
          /\ threads.heap[b].touched \subseteq {threads.heap[b].owner}
          /\ threads.heap[b].live =>
                /\ threads.heap[b].owner \in Running
                /\ threads.of[threads.heap[b].owner].buf = b
                /\ threads.heap[b].slots = WrittenBy(threads.heap[b].owner)
    /\ \A t, u \in Running :
          (t # u /\ threads.of[t].buf # 0) => threads.of[t].buf # threads.of[u].buf
    /\ test = NewTest(NewSuite(NewModule([kind |-> "session", session_id |-> 1], 2), 3), 4)
    /\ \A t \in Running : threads.of[t].handle = test
    /\ \A t \in Running : ENABLED (\E b \in 1..MaxThreads, reply \in {0, 1} :
                                      ThreadStep(t, b, reply))
    /\ "thread" \in DOMAIN last =>
          /\ calls[1].id = test.test_id
          /\ calls[1].data = [k \in DOMAIN last.entries |->
                                 [key |-> CStringNew(last.entries[k][1]).buf,
                                  value |-> CStringNew(last.entries[k][2]).buf]]

\* one thread is about to release its array while the other is writing
\* its own
C24_Witness ==
    /\ threads.of[1].pc = "dealloc"
    /\ threads.of[2].pc = "fill"
    /\ threads.of[2].i = 1
    /\ threads.of[1].buf # threads.of[2].buf
    /\ threads.heap[threads.of[1].buf].touched = {1}
    /\ threads.heap[threads.of[2].buf].touched = {2}

====
